---------------------------- MODULE Spec2Model ----------------------------
(***************************************************************************)
(* A model of the ascii crate: AsciiChar (one byte, 0..127), AsciiStr (a   *)
(* borrowed run of AsciiChar), AsciiString (an owned Vec<AsciiChar>), the  *)
(* validating conversions into them, the Split and Lines iterators, the    *)
(* nul-terminated AsciiCStr and AsciiCString of ffi, and the serde visitor *)
(* of AsciiChar.                                                           *)
(*                                                                         *)
(* A u8 is an integer 0..255, a char an integer code point, an AsciiChar   *)
(* the integer discriminant of the #[repr(u8)] enum.  A slice or Vec is a  *)
(* sequence; Rust's 0-based index i is element i+1 of the sequence.  A     *)
(* value that crosses a Result carries its Rust type in a record.          *)
(***************************************************************************)
EXTENDS Integers, Sequences, FiniteSets, TLC

VARIABLES
    call,       \* conversions: the conversion that was called last
    arg,        \* conversions: its argument, [ty, v]
    res,        \* conversions: its Result, [ok, ty, v]
    back,       \* conversions: what the reverse conversion of res gave, an Option
    vec,        \* AsciiString.vec: the units of the buffer
    cap,        \* AsciiString.vec.capacity()
    ret,        \* AsciiString: the last method called, [op, args, v]
    panicked,   \* AsciiString: the last method panicked
    hay,        \* Split: the AsciiStr that split() was called on
    split,      \* Split: the struct, [on, ended, chars: [lo, hi]]
    split_out,  \* Split: the items the caller got, [fronts, backs, last]
    text,       \* Lines: the AsciiStr that lines() was called on
    lines,      \* Lines: the struct, [string: [lo, hi]]
    lines_out   \* Lines: the items the caller got, [fronts, backs, last]

conv_vars  == <<call, arg, res, back>>
buf_vars   == <<vec, cap, ret, panicked>>
split_vars == <<hay, split, split_out>>
lines_vars == <<text, lines, lines_out>>
vars == <<call, arg, res, back, vec, cap, ret, panicked,
          hay, split, split_out, text, lines, lines_out>>

---------------------------------------------------------------------------
(* Bounds and the values the inputs are drawn from.                        *)

MaxInputLen == 3
MaxBufLen == 3
MaxViewLen == 4

\* bytes: 'A', DEL (the largest ASCII value), 0x80 (the smallest non-ASCII
\* value) and 0xFF
ByteSample == {65, 127, 128, 255}

\* code points: 'A', DEL, U+0080, U+0141 and U+10041 (low 8 bits 'A'),
\* U+534E (three bytes in UTF-8, low 8 bits 'N')
CharSample == {65, 127, 128, 321, 21326, 65601}

SeqsUpTo(S, n) == UNION {[1..k -> S] : k \in 0..n}

ByteSeqs == SeqsUpTo(ByteSample, MaxInputLen)
Strs     == SeqsUpTo(CharSample, MaxInputLen)

RECURSIVE Flatten(_)
Flatten(ss) == IF ss = <<>> THEN <<>> ELSE Head(ss) \o Flatten(Tail(ss))

---------------------------------------------------------------------------
(* Values of Rust types.                                                   *)

\* Option<T>
None == <<>>
Some(x) == <<x>>

Val(ty, v) == [ty |-> ty, v |-> v]
Ok(ty, v)  == [ok |-> TRUE,  ty |-> ty, v |-> v]
Err(ty, v) == [ok |-> FALSE, ty |-> ty, v |-> v]

\* pub struct AsAsciiStrError(usize): a tuple struct of one field
AsAsciiStrError(index) == Err("AsAsciiStrError", <<index>>)

\* AsAsciiStrError::valid_up_to: self.0
valid_up_to(e) == e[1]

\* the unit value ()
Unit == <<>>

\* pub struct ToAsciiCharError(())
ToAsciiCharError(unit) == Err("ToAsciiCharError", <<unit>>)

---------------------------------------------------------------------------
(* AsciiChar.                                                              *)

\* u8::to_ascii_char_unchecked: transmute(self).  Only values 0..127 are
\* discriminants of the enum; the callers below guard the call.
u8_to_ascii_char_unchecked(b) == b

\* char::to_ascii_char_unchecked: (self as u8).to_ascii_char_unchecked()
char_to_ascii_char_unchecked(c) == u8_to_ascii_char_unchecked(c % 256)

\* impl ToAsciiChar for u8
u8_to_ascii_char(b) ==
    IF b <= 127 THEN Ok("AsciiChar", u8_to_ascii_char_unchecked(b))
    ELSE ToAsciiCharError(Unit)

char_to_ascii_char_truncating(c) ==
    IF c % 256 <= 127 THEN Ok("AsciiChar", char_to_ascii_char_unchecked(c))
    ELSE ToAsciiCharError(Unit)

\* impl ToAsciiChar for char
char_to_ascii_char(c) ==
    IF c <= 127 THEN Ok("AsciiChar", char_to_ascii_char_unchecked(c))
    ELSE ToAsciiCharError(Unit)

\* AsciiChar::as_byte: *self as u8
as_byte(ch) == ch

---------------------------------------------------------------------------
(* The bytes of a text buffer.                                             *)

\* the UTF-8 encoding of one code point
encode_utf8(c) ==
    IF c < 128 THEN <<c>>
    ELSE IF c < 2048 THEN <<192 + (c \div 64), 128 + (c % 64)>>
    ELSE IF c < 65536 THEN
        <<224 + (c \div 4096), 128 + ((c \div 64) % 64), 128 + (c % 64)>>
    ELSE <<240 + (c \div 262144), 128 + ((c \div 4096) % 64),
           128 + ((c \div 64) % 64), 128 + (c % 64)>>

\* str::as_bytes / str::bytes / String::into_bytes
str_as_bytes(s) == Flatten([i \in 1..Len(s) |-> encode_utf8(s[i])])

\* AsRef<[u8]> of the argument of a conversion
as_ref_bytes(a) ==
    IF a.ty \in {"str", "String"} THEN str_as_bytes(a.v) ELSE a.v

---------------------------------------------------------------------------
(* The validating conversions to a borrowed AsciiStr.                      *)

is_non_ascii_off_by_one(b) == b > 128

\* the closure |&b| b > 127 of the validating scans
is_non_ascii(b) == b > 127

position_one_based(s, i) ==
    IF \E j \in (i + 1)..Len(s) : is_non_ascii(s[j])
    THEN [some |-> TRUE,
          v |-> CHOOSE j \in (i + 1)..Len(s) :
                    /\ is_non_ascii(s[j])
                    /\ \A k \in (i + 1)..(j - 1) : ~is_non_ascii(s[k])]
    ELSE [some |-> FALSE, v |-> 0]

RECURSIVE position(_, _)
\* Iterator::position(|&b| b > 127) of a byte iterator that has yielded i
\* bytes: the 0-based index of the first byte the closure accepts
position(s, i) ==
    IF i >= Len(s) THEN [some |-> FALSE, v |-> 0]
    ELSE IF is_non_ascii(s[i + 1]) THEN [some |-> TRUE, v |-> i]
    ELSE position(s, i + 1)

\* [u8]::as_ascii_str_unchecked: the same memory, as *const AsciiStr
as_ascii_str_unchecked(bytes) ==
    [i \in 1..Len(bytes) |-> u8_to_ascii_char_unchecked(bytes[i])]

\* impl AsAsciiStr for [u8]
as_ascii_str_u8s(bytes) ==
    LET p == position(bytes, 0)
    IN  IF p.some THEN AsAsciiStrError(p.v)
        ELSE Ok("AsciiStr", as_ascii_str_unchecked(bytes))

\* impl AsMutAsciiStr for [u8]
as_mut_ascii_str_u8s(bytes) ==
    LET p == position(bytes, 0)
    IN  IF p.some THEN AsAsciiStrError(p.v)
        ELSE Ok("AsciiStr", as_ascii_str_unchecked(bytes))

\* impl AsAsciiStr for str: self.as_bytes().as_ascii_str()
as_ascii_str_str(s) == as_ascii_str_u8s(str_as_bytes(s))

\* impl AsMutAsciiStr for str: self.bytes().position(|b| b > 127)
as_mut_ascii_str_str(s) ==
    LET p == position(str_as_bytes(s), 0)
    IN  IF p.some THEN AsAsciiStrError(p.v)
        ELSE Ok("AsciiStr", as_ascii_str_unchecked(str_as_bytes(s)))

\* AsciiStr::from_ascii: bytes.as_ref().as_ascii_str()
AsciiStr_from_ascii(a) == as_ascii_str_u8s(as_ref_bytes(a))

as_bytes_short(view) == [i \in 1..(Len(view) - 1) |-> as_byte(view[i])]

\* AsciiStr::as_bytes: the same memory, as *const [u8]
as_bytes(view) == [i \in 1..Len(view) |-> as_byte(view[i])]

\* AsciiStr::to_ascii_string: AsciiString::from(self.slice.to_vec())
to_ascii_string(view) == [i \in 1..Len(view) |-> view[i]]

---------------------------------------------------------------------------
(* The validating conversions to an owned AsciiString.                     *)

is_ascii_off_by_one(bytes) == \A i \in 1..Len(bytes) : bytes[i] <= 128

\* [u8]::is_ascii
is_ascii(bytes) == \A i \in 1..Len(bytes) : bytes[i] <= 127

\* AsciiString::from_ascii_unchecked: Vec::from_raw_parts of the bytes'
\* allocation, as *mut AsciiChar
AsciiString_from_ascii_unchecked(bytes) ==
    [i \in 1..Len(bytes) |-> u8_to_ascii_char_unchecked(bytes[i])]

AsciiString_from_ascii_lossy(a) ==
    Ok("AsciiString",
       AsciiString_from_ascii_unchecked(
           SelectSeq(as_ref_bytes(a), LAMBDA b : b <= 127)))

\* AsciiString::from_ascii
AsciiString_from_ascii(a) ==
    IF is_ascii(as_ref_bytes(a))
    THEN Ok("AsciiString", AsciiString_from_ascii_unchecked(as_ref_bytes(a)))
    ELSE Err(a.ty, a.v)

\* impl IntoAsciiString for Vec<u8> / String
into_ascii_string(a) == AsciiString_from_ascii(a)

AsciiString_from_str_unit_error(s) ==
    IF as_ascii_str_str(s).ok
    THEN Ok("AsciiString", to_ascii_string(as_ascii_str_str(s).v))
    ELSE Err("()", Unit)

\* impl FromStr for AsciiString: s.as_ascii_str().map(AsciiStr::to_ascii_string)
AsciiString_from_str(s) ==
    LET r == as_ascii_str_str(s)
    IN  IF r.ok THEN Ok("AsciiString", to_ascii_string(r.v)) ELSE r

\* AsciiCast::to_ascii for [u8] and str
to_ascii(a) ==
    IF is_ascii(as_ref_bytes(a))
    THEN Ok("AsciiStr", as_ascii_str_unchecked(as_ref_bytes(a)))
    ELSE Err("()", Unit)

\* OwnedAsciiCast::into_ascii for Vec<u8> and String
into_ascii(a) ==
    IF is_ascii(as_ref_bytes(a))
    THEN Ok("AsciiString", AsciiString_from_ascii_unchecked(as_ref_bytes(a)))
    ELSE Err(a.ty, a.v)

\* impl Into<Vec<u8>> for AsciiString: Vec::from_raw_parts of the units'
\* allocation, as *mut u8
into_vec_u8(units) == [i \in 1..Len(units) |-> as_byte(units[i])]

---------------------------------------------------------------------------
(* The conversions as a caller meets them: one call, its argument and its  *)
(* Result, then the reverse conversion of an Ok value.                     *)

U8s == 0..255
CharInputs == U8s \cup CharSample

ConvIdle ==
    /\ call = "none"
    /\ arg = Val("none", <<>>)
    /\ res = Ok("none", <<>>)
    /\ back = None

\* the value a conversion is given: a byte slice or vector, a str or String,
\* a byte or a char
ConvStart ==
    /\ call = "none"
    /\ arg \in {Val(ty, s) : ty \in {"[u8]", "Vec<u8>"}, s \in ByteSeqs}
               \cup {Val(ty, s) : ty \in {"str", "String"}, s \in Strs}
               \cup {Val("u8", b) : b \in U8s}
               \cup {Val("char", c) : c \in CharInputs}
    /\ res = Ok("none", <<>>)
    /\ back = None

CallAsAsciiStrU8s ==
    /\ arg.ty = "[u8]"
    /\ call' = "as_ascii_str_u8s"
    /\ res' = as_ascii_str_u8s(arg.v)
    /\ back' = None
    /\ UNCHANGED <<arg, buf_vars, split_vars, lines_vars>>

CallAsMutAsciiStrU8s ==
    /\ arg.ty = "[u8]"
    /\ call' = "as_mut_ascii_str_u8s"
    /\ res' = as_mut_ascii_str_u8s(arg.v)
    /\ back' = None
    /\ UNCHANGED <<arg, buf_vars, split_vars, lines_vars>>

CallAsAsciiStrStr ==
    /\ arg.ty = "str"
    /\ call' = "as_ascii_str_str"
    /\ res' = as_ascii_str_str(arg.v)
    /\ back' = None
    /\ UNCHANGED <<arg, buf_vars, split_vars, lines_vars>>

CallAsMutAsciiStrStr ==
    /\ arg.ty = "str"
    /\ call' = "as_mut_ascii_str_str"
    /\ res' = as_mut_ascii_str_str(arg.v)
    /\ back' = None
    /\ UNCHANGED <<arg, buf_vars, split_vars, lines_vars>>

\* AsciiStr::from_ascii(&[u8]) and AsciiStr::from_ascii(&str)
CallAsciiStrFromAscii ==
    /\ arg.ty \in {"[u8]", "str"}
    /\ call' = "AsciiStr_from_ascii"
    /\ res' = AsciiStr_from_ascii(arg)
    /\ back' = None
    /\ UNCHANGED <<arg, buf_vars, split_vars, lines_vars>>

\* AsciiString::from_ascii(Vec<u8>) and AsciiString::from_ascii(String)
CallAsciiStringFromAscii ==
    /\ arg.ty \in {"Vec<u8>", "String"}
    /\ call' = "AsciiString_from_ascii"
    /\ res' = AsciiString_from_ascii(arg)
    /\ back' = None
    /\ UNCHANGED <<arg, buf_vars, split_vars, lines_vars>>

CallIntoAsciiString ==
    /\ arg.ty \in {"Vec<u8>", "String"}
    /\ call' = "into_ascii_string"
    /\ res' = into_ascii_string(arg)
    /\ back' = None
    /\ UNCHANGED <<arg, buf_vars, split_vars, lines_vars>>

CallAsciiStringFromStr ==
    /\ arg.ty = "str"
    /\ call' = "AsciiString_from_str"
    /\ res' = AsciiString_from_str(arg.v)
    /\ back' = None
    /\ UNCHANGED <<arg, buf_vars, split_vars, lines_vars>>

CallToAscii ==
    /\ arg.ty \in {"[u8]", "str"}
    /\ call' = "to_ascii"
    /\ res' = to_ascii(arg)
    /\ back' = None
    /\ UNCHANGED <<arg, buf_vars, split_vars, lines_vars>>

CallIntoAscii ==
    /\ arg.ty \in {"Vec<u8>", "String"}
    /\ call' = "into_ascii"
    /\ res' = into_ascii(arg)
    /\ back' = None
    /\ UNCHANGED <<arg, buf_vars, split_vars, lines_vars>>

CallU8ToAsciiChar ==
    /\ arg.ty = "u8"
    /\ call' = "u8_to_ascii_char"
    /\ res' = u8_to_ascii_char(arg.v)
    /\ back' = None
    /\ UNCHANGED <<arg, buf_vars, split_vars, lines_vars>>

CallCharToAsciiChar ==
    /\ arg.ty = "char"
    /\ call' = "char_to_ascii_char"
    /\ res' = char_to_ascii_char(arg.v)
    /\ back' = None
    /\ UNCHANGED <<arg, buf_vars, split_vars, lines_vars>>

\* serde::de::Error::invalid_value(unexp, &self) of AsciiCharVisitor, unexp
\* an Unexpected::Char or Unexpected::Str
invalid_value(variant, v) == Err("invalid_value", <<variant, v>>)

\* AsciiCharVisitor::visit_char
visit_char(v) ==
    IF char_to_ascii_char(v).ok THEN char_to_ascii_char(v)
    ELSE invalid_value("Char", v)

visit_str_first_char(v) ==
    IF Len(v) >= 1 THEN visit_char(v[1]) ELSE invalid_value("Str", v)

\* AsciiCharVisitor::visit_str: (iter.next(), iter.next()) of v.chars()
visit_str(v) ==
    IF Len(v) >= 1 /\ Len(v) < 2 THEN visit_char(v[1])
    ELSE invalid_value("Str", v)

CallVisitChar ==
    /\ arg.ty = "char"
    /\ call' = "visit_char"
    /\ res' = visit_char(arg.v)
    /\ back' = None
    /\ UNCHANGED <<arg, buf_vars, split_vars, lines_vars>>

CallVisitStr ==
    /\ arg.ty = "str"
    /\ call' = "visit_str"
    /\ res' = visit_str(arg.v)
    /\ back' = None
    /\ UNCHANGED <<arg, buf_vars, split_vars, lines_vars>>

\* as_bytes() of the AsciiStr a conversion gave
CallAsBytes ==
    /\ res.ok /\ res.ty = "AsciiStr" /\ back = None
    /\ back' = Some(as_bytes(res.v))
    /\ UNCHANGED <<call, arg, res, buf_vars, split_vars, lines_vars>>

\* Into::<Vec<u8>>::into() of the AsciiString a conversion gave
CallIntoVecU8 ==
    /\ res.ok /\ res.ty = "AsciiString" /\ back = None
    /\ back' = Some(into_vec_u8(res.v))
    /\ UNCHANGED <<call, arg, res, buf_vars, split_vars, lines_vars>>

NextConv ==
    \/ CallAsAsciiStrU8s
    \/ CallAsMutAsciiStrU8s
    \/ CallAsAsciiStrStr
    \/ CallAsMutAsciiStrStr
    \/ CallAsciiStrFromAscii
    \/ CallAsciiStringFromAscii
    \/ CallIntoAsciiString
    \/ CallAsciiStringFromStr
    \/ CallToAscii
    \/ CallIntoAscii
    \/ CallU8ToAsciiChar
    \/ CallCharToAsciiChar
    \/ CallAsBytes
    \/ CallIntoVecU8
    \/ CallVisitChar
    \/ CallVisitStr

---------------------------------------------------------------------------
(* AsciiChar case mapping (AsciiExt for AsciiChar).                        *)

u8_toggle_ascii_case(b) ==
    IF b >= 97 /\ b <= 122 THEN b - 32
    ELSE IF b >= 65 /\ b <= 90 THEN b + 32 ELSE b

\* u8::to_ascii_uppercase
u8_to_ascii_uppercase(b) == IF b >= 97 /\ b <= 122 THEN b - 32 ELSE b

\* u8::to_ascii_lowercase
u8_to_ascii_lowercase(b) == IF b >= 65 /\ b <= 90 THEN b + 32 ELSE b

\* AsciiChar::to_ascii_uppercase
to_ascii_uppercase(ch) == u8_to_ascii_char_unchecked(u8_to_ascii_uppercase(as_byte(ch)))

\* AsciiChar::to_ascii_lowercase
to_ascii_lowercase(ch) == u8_to_ascii_char_unchecked(u8_to_ascii_lowercase(as_byte(ch)))

\* AsciiStr::make_ascii_uppercase: for a in self.chars_mut() { *a = ... }
make_ascii_uppercase(slice) == [i \in 1..Len(slice) |-> to_ascii_uppercase(slice[i])]

\* AsciiStr::make_ascii_lowercase
make_ascii_lowercase(slice) == [i \in 1..Len(slice) |-> to_ascii_lowercase(slice[i])]

---------------------------------------------------------------------------
(* AsciiString: the owned buffer and its methods.                          *)

MaxArgLen == 2

MaxCap == MaxBufLen + 1

\* units a caller holds: 'A', 'a', DEL
BufChars == {65, 97, 127}

\* bytes a caller hands to from_ascii: 'A', 'a', 0x80
BufBytes == {65, 97, 128}

BufViews == SeqsUpTo(BufChars, MaxArgLen)
BufInputs == SeqsUpTo(BufBytes, MaxArgLen)
StrLists == SeqsUpTo(SeqsUpTo(BufChars, 1), MaxArgLen)

\* the capacities Vec::reserve(additional) may leave: unchanged when the
\* spare room suffices, else any the allocator grants
Reserved(c, len, additional) ==
    IF c - len >= additional THEN {c} ELSE (len + additional)..MaxCap

BufIdle ==
    /\ vec = <<>>
    /\ cap = 0
    /\ ret = [op |-> "new", args |-> <<>>, v |-> None]
    /\ panicked = FALSE

Returned(op, args, v) == ret' = [op |-> op, args |-> args, v |-> v]

\* AsciiString::new
New ==
    /\ ~panicked
    /\ vec' = <<>>
    /\ cap' = 0
    /\ Returned("new", <<>>, None)
    /\ UNCHANGED <<panicked, conv_vars, split_vars, lines_vars>>

\* AsciiString::with_capacity
WithCapacity ==
    /\ ~panicked
    /\ \E c \in 0..MaxCap :
        /\ vec' = <<>>
        /\ cap' = c
        /\ Returned("with_capacity", <<c>>, None)
    /\ UNCHANGED <<panicked, conv_vars, split_vars, lines_vars>>

\* AsciiString::from_ascii(bytes), the buffer being its Ok value
FromAscii ==
    /\ ~panicked
    /\ \E bytes \in BufInputs :
        LET r == AsciiString_from_ascii(Val("Vec<u8>", bytes))
        IN  /\ r.ok
            /\ vec' = r.v
            /\ \E c \in Len(bytes)..MaxCap : cap' = c
            /\ Returned("from_ascii", <<bytes>>, None)
    /\ UNCHANGED <<panicked, conv_vars, split_vars, lines_vars>>

\* Vec::push
push(v, ch) == Append(v, ch)

\* AsciiString::push: self.vec.push(ch)
Push ==
    /\ ~panicked
    /\ Len(vec) < MaxBufLen
    /\ \E ch \in BufChars :
        /\ vec' = push(vec, ch)
        /\ Returned("push", <<ch>>, None)
    /\ cap' \in Reserved(cap, Len(vec), 1)
    /\ UNCHANGED <<panicked, conv_vars, split_vars, lines_vars>>

pop_keeping_last(v) ==
    IF v = <<>> THEN [vec |-> v, ret |-> None]
    ELSE [vec |-> v, ret |-> Some(v[Len(v)])]

\* Vec::pop
pop(v) ==
    IF v = <<>> THEN [vec |-> v, ret |-> None]
    ELSE [vec |-> SubSeq(v, 1, Len(v) - 1), ret |-> Some(v[Len(v)])]

\* AsciiString::pop: self.vec.pop()
Pop ==
    /\ ~panicked
    /\ vec' = pop(vec).vec
    /\ Returned("pop", <<>>, pop(vec).ret)
    /\ UNCHANGED <<cap, panicked, conv_vars, split_vars, lines_vars>>

insert_after(v, idx, ch) ==
    IF idx >= Len(v)
    THEN [panic |-> TRUE, vec |-> v]
    ELSE [panic |-> FALSE,
          vec |-> SubSeq(v, 1, idx + 1) \o <<ch>> \o SubSeq(v, idx + 2, Len(v))]

\* Vec::insert, which panics if idx > len
insert(v, idx, ch) ==
    IF idx > Len(v)
    THEN [panic |-> TRUE, vec |-> v]
    ELSE [panic |-> FALSE,
          vec |-> SubSeq(v, 1, idx) \o <<ch>> \o SubSeq(v, idx + 1, Len(v))]

\* AsciiString::insert: self.vec.insert(idx, ch)
Insert ==
    /\ ~panicked
    /\ Len(vec) < MaxBufLen
    /\ \E idx \in 0..(Len(vec) + 1), ch \in BufChars :
        /\ vec' = insert(vec, idx, ch).vec
        /\ panicked' = insert(vec, idx, ch).panic
        /\ IF insert(vec, idx, ch).panic
           THEN cap' = cap
           ELSE cap' \in Reserved(cap, Len(vec), 1)
        /\ Returned("insert", <<idx, ch>>, None)
    /\ UNCHANGED <<conv_vars, split_vars, lines_vars>>

remove_swapping(v, idx) ==
    IF idx >= Len(v)
    THEN [panic |-> TRUE, vec |-> v, ret |-> None]
    ELSE [panic |-> FALSE,
          vec |-> SubSeq([v EXCEPT ![idx + 1] = v[Len(v)]], 1, Len(v) - 1),
          ret |-> Some(v[idx + 1])]

\* Vec::remove, which panics if idx >= len
remove(v, idx) ==
    IF idx >= Len(v)
    THEN [panic |-> TRUE, vec |-> v, ret |-> None]
    ELSE [panic |-> FALSE,
          vec |-> SubSeq(v, 1, idx) \o SubSeq(v, idx + 2, Len(v)),
          ret |-> Some(v[idx + 1])]

\* AsciiString::remove: self.vec.remove(idx)
Remove ==
    /\ ~panicked
    /\ \E idx \in 0..Len(vec) :
        /\ vec' = remove(vec, idx).vec
        /\ panicked' = remove(vec, idx).panic
        /\ Returned("remove", <<idx>>, remove(vec, idx).ret)
    /\ UNCHANGED <<cap, conv_vars, split_vars, lines_vars>>

\* Vec::truncate, which has no effect if new_len is greater than the length
truncate(v, new_len) ==
    IF new_len > Len(v) THEN v ELSE SubSeq(v, 1, new_len)

\* AsciiString::truncate: self.vec.truncate(new_len)
Truncate ==
    /\ ~panicked
    /\ \E new_len \in 0..(Len(vec) + 1) :
        /\ vec' = truncate(vec, new_len)
        /\ Returned("truncate", <<new_len>>, None)
    /\ UNCHANGED <<cap, panicked, conv_vars, split_vars, lines_vars>>

\* AsciiString::clear: self.vec.clear()
Clear ==
    /\ ~panicked
    /\ vec' = <<>>
    /\ Returned("clear", <<>>, None)
    /\ UNCHANGED <<cap, panicked, conv_vars, split_vars, lines_vars>>

\* AsciiString::push_str: self.vec.extend(string.as_slice().iter().cloned())
push_str(v, string) == v \o string

PushStr ==
    /\ ~panicked
    /\ \E string \in BufViews :
        /\ Len(vec) + Len(string) <= MaxBufLen
        /\ vec' = push_str(vec, string)
        /\ cap' \in Reserved(cap, Len(vec), Len(string))
        /\ Returned("push_str", <<string>>, None)
    /\ UNCHANGED <<panicked, conv_vars, split_vars, lines_vars>>

\* impl Extend<AsciiChar> for AsciiString: reserve(lower_bound), then a
\* push of every unit
ExtendChars ==
    /\ ~panicked
    /\ \E iterable \in BufViews :
        /\ Len(vec) + Len(iterable) <= MaxBufLen
        /\ vec' = vec \o iterable
        /\ cap' \in Reserved(cap, Len(vec), Len(iterable))
        /\ Returned("extend", <<iterable>>, None)
    /\ UNCHANGED <<panicked, conv_vars, split_vars, lines_vars>>

\* impl Extend<&AsciiStr> for AsciiString: reserve(lower_bound), then a
\* push_str of every view
ExtendStrs ==
    /\ ~panicked
    /\ \E iterable \in StrLists :
        /\ Len(vec) + Len(Flatten(iterable)) <= MaxBufLen
        /\ vec' = vec \o Flatten(iterable)
        /\ cap' \in UNION {Reserved(c, Len(vec), Len(Flatten(iterable))) :
                               c \in Reserved(cap, Len(vec), Len(iterable))}
        /\ Returned("extend_strs", <<iterable>>, None)
    /\ UNCHANGED <<panicked, conv_vars, split_vars, lines_vars>>

\* impl Add<&AsciiStr> for AsciiString: self.push_str(other); self
Add ==
    /\ ~panicked
    /\ \E other \in BufViews :
        /\ Len(vec) + Len(other) <= MaxBufLen
        /\ vec' = push_str(vec, other)
        /\ cap' \in Reserved(cap, Len(vec), Len(other))
        /\ Returned("add", <<other>>, None)
    /\ UNCHANGED <<panicked, conv_vars, split_vars, lines_vars>>

\* make_ascii_uppercase through DerefMut
MakeAsciiUppercase ==
    /\ ~panicked
    /\ vec' = make_ascii_uppercase(vec)
    /\ Returned("make_ascii_uppercase", <<>>, None)
    /\ UNCHANGED <<cap, panicked, conv_vars, split_vars, lines_vars>>

\* make_ascii_lowercase through DerefMut
MakeAsciiLowercase ==
    /\ ~panicked
    /\ vec' = make_ascii_lowercase(vec)
    /\ Returned("make_ascii_lowercase", <<>>, None)
    /\ UNCHANGED <<cap, panicked, conv_vars, split_vars, lines_vars>>

NextBuf ==
    \/ New
    \/ WithCapacity
    \/ FromAscii
    \/ Push
    \/ Pop
    \/ Insert
    \/ Remove
    \/ Truncate
    \/ Clear
    \/ PushStr
    \/ ExtendChars
    \/ ExtendStrs
    \/ Add
    \/ MakeAsciiUppercase
    \/ MakeAsciiLowercase

---------------------------------------------------------------------------
(* Sub-views.  A view into a borrowed AsciiStr h is the half-open range    *)
(* [lo, hi) of 0-based positions of h it covers.                           *)

Range(lo, hi) == [lo |-> lo, hi |-> hi]

\* the units of a view
Units(h, r) == SubSeq(h, r.lo + 1, r.hi)

\* AsciiStr::chars / Chars::as_str: the iterator over a view is the view of
\* the units it has not yielded
chars(r) == r

RECURSIVE chars_position(_, _, _, _)
\* Iterator::position(|c| c == on) on a Chars that has yielded i units in
\* this call: next() until a unit matches
chars_position(h, c, on, i) ==
    IF c.lo >= c.hi THEN [found |-> FALSE, at |-> 0, chars |-> c]
    ELSE IF h[c.lo + 1] = on
         THEN [found |-> TRUE, at |-> i, chars |-> Range(c.lo + 1, c.hi)]
         ELSE chars_position(h, Range(c.lo + 1, c.hi), on, i + 1)

RECURSIVE chars_rposition(_, _, _, _)
\* Iterator::rposition(|c| c == on) on a Chars of which i units are left
\* (i starts at len()): next_back() until a unit matches
chars_rposition(h, c, on, i) ==
    IF c.lo >= c.hi THEN [found |-> FALSE, at |-> 0, chars |-> c]
    ELSE IF h[c.hi] = on
         THEN [found |-> TRUE, at |-> i - 1, chars |-> Range(c.lo, c.hi - 1)]
         ELSE chars_rposition(h, Range(c.lo, c.hi - 1), on, i - 1)

---------------------------------------------------------------------------
(* Split.                                                                  *)

\* units of the views that are split: ',', '1', '|'
SplitChars == {44, 49, 124}
SplitOn == {44, 124}
\* tests::split_str: "1,2,3" besides the views of SplitChars
SplitExamples == {<<49, 44, 50, 44, 51>>}
SplitViews == SeqsUpTo(SplitChars, MaxViewLen) \cup SplitExamples

NoItems == [fronts |-> <<>>, backs |-> <<>>, last |-> "start"]

\* AsciiStr::split
split_new(h, on) == [on |-> on, ended |-> FALSE, chars |-> chars(Range(0, Len(h)))]

split_next_skipping(h, sp) ==
    IF ~sp.ended
    THEN LET start == sp.chars
             p == chars_position(h, sp.chars, sp.on, 0)
         IN  IF p.found
             THEN [item |-> Some(Range(start.lo, start.lo + p.at)),
                   split |-> [sp EXCEPT !.chars = p.chars]]
             ELSE [item |-> IF start.lo = start.hi /\ start.lo > 0
                            THEN None ELSE Some(start),
                   split |-> [sp EXCEPT !.ended = TRUE, !.chars = p.chars]]
    ELSE [item |-> None, split |-> sp]

split_next_keeping_separator(h, sp) ==
    IF ~sp.ended
    THEN LET start == sp.chars
             p == chars_position(h, sp.chars, sp.on, 0)
         IN  IF p.found
             THEN [item |-> Some(Range(start.lo, start.lo + p.at + 1)),
                   split |-> [sp EXCEPT !.chars = p.chars]]
             ELSE [item |-> Some(start),
                   split |-> [sp EXCEPT !.ended = TRUE, !.chars = p.chars]]
    ELSE [item |-> None, split |-> sp]

split_next_not_ending(h, sp) ==
    IF ~sp.ended
    THEN LET start == sp.chars
             p == chars_position(h, sp.chars, sp.on, 0)
         IN  IF p.found
             THEN [item |-> Some(Range(start.lo, start.lo + p.at)),
                   split |-> [sp EXCEPT !.chars = p.chars]]
             ELSE [item |-> Some(start),
                   split |-> [sp EXCEPT !.chars = p.chars]]
    ELSE [item |-> None, split |-> sp]

\* impl Iterator for Split: next
split_next(h, sp) ==
    IF ~sp.ended
    THEN LET start == sp.chars
             p == chars_position(h, sp.chars, sp.on, 0)
         IN  IF p.found
             THEN [item |-> Some(Range(start.lo, start.lo + p.at)),
                   split |-> [sp EXCEPT !.chars = p.chars]]
             ELSE [item |-> Some(start),
                   split |-> [sp EXCEPT !.ended = TRUE, !.chars = p.chars]]
    ELSE [item |-> None, split |-> sp]

split_next_back_from_separator(h, sp) ==
    IF ~sp.ended
    THEN LET start == sp.chars
             p == chars_rposition(h, sp.chars, sp.on, sp.chars.hi - sp.chars.lo)
         IN  IF p.found
             THEN [item |-> Some(Range(start.lo + p.at, start.hi)),
                   split |-> [sp EXCEPT !.chars = p.chars]]
             ELSE [item |-> Some(start),
                   split |-> [sp EXCEPT !.ended = TRUE, !.chars = p.chars]]
    ELSE [item |-> None, split |-> sp]

\* impl DoubleEndedIterator for Split: next_back
split_next_back(h, sp) ==
    IF ~sp.ended
    THEN LET start == sp.chars
             p == chars_rposition(h, sp.chars, sp.on, sp.chars.hi - sp.chars.lo)
         IN  IF p.found
             THEN [item |-> Some(Range(start.lo + p.at + 1, start.hi)),
                   split |-> [sp EXCEPT !.chars = p.chars]]
             ELSE [item |-> Some(start),
                   split |-> [sp EXCEPT !.ended = TRUE, !.chars = p.chars]]
    ELSE [item |-> None, split |-> sp]

SplitIdle ==
    /\ hay = <<>>
    /\ split = split_new(<<>>, 44)
    /\ split_out = NoItems

SplitStart ==
    /\ hay \in SplitViews
    /\ \E on \in SplitOn : split = split_new(hay, on)
    /\ split_out = NoItems

\* the caller's next() on the iterator
SplitNext ==
    LET r == split_next(hay, split)
    IN  /\ split' = r.split
        /\ split_out' =
            IF r.item = None THEN [split_out EXCEPT !.last = "None"]
            ELSE [split_out EXCEPT !.fronts = Append(@, r.item[1]), !.last = "Some"]
        /\ UNCHANGED <<hay, conv_vars, buf_vars, lines_vars>>

\* the caller's next_back() on the iterator
SplitNextBack ==
    LET r == split_next_back(hay, split)
    IN  /\ split' = r.split
        /\ split_out' =
            IF r.item = None THEN [split_out EXCEPT !.last = "None"]
            ELSE [split_out EXCEPT !.backs = Append(@, r.item[1]), !.last = "Some"]
        /\ UNCHANGED <<hay, conv_vars, buf_vars, lines_vars>>

NextSplit ==
    \/ SplitNext
    \/ SplitNextBack

---------------------------------------------------------------------------
(* Lines.                                                                  *)

LineFeed == 10
CarriageReturn == 13

\* units of the views that are read as lines: '\n', '\r', 'a'
LinesChars == {LineFeed, CarriageReturn, 97}
\* tests::lines_iter: "foo\r\nbar\n\nbaz\n" besides the views of LinesChars
LinesExamples ==
    {<<102, 111, 111, 13, 10, 98, 97, 114, 10, 10, 98, 97, 122, 10>>}
LinesViews == SeqsUpTo(LinesChars, MaxViewLen) \cup LinesExamples

\* self.string[k]
At(h, r, k) == h[r.lo + k + 1]

\* AsciiStr::lines
lines_new(h) == [string |-> Range(0, Len(h))]

lines_next_keeping_cr(h, ln) ==
    LET p == chars_position(h, chars(ln.string), LineFeed, 0)
        s == ln.string
    IN  IF p.found
        THEN [item |-> Some(Range(s.lo, s.lo + p.at)),
              lines |-> [string |-> Range(s.lo + p.at + 1, s.hi)]]
        ELSE IF s.lo = s.hi
        THEN [item |-> None, lines |-> ln]
        ELSE [item |-> Some(s), lines |-> [string |-> Range(s.lo, s.lo)]]

\* impl Iterator for Lines: next
lines_next(h, ln) ==
    LET p == chars_position(h, chars(ln.string), LineFeed, 0)
        s == ln.string
    IN  IF p.found
        THEN [item |-> IF p.at > 0 /\ At(h, s, p.at - 1) = CarriageReturn
                       THEN Some(Range(s.lo, s.lo + p.at - 1))
                       ELSE Some(Range(s.lo, s.lo + p.at)),
              lines |-> [string |-> Range(s.lo + p.at + 1, s.hi)]]
        ELSE IF s.lo = s.hi
        THEN [item |-> None, lines |-> ln]
        ELSE [item |-> Some(s), lines |-> [string |-> Range(s.lo, s.lo)]]

RECURSIVE back_to_line_feed(_, _, _)
\* while i > 0 && self.string[i-1] != AsciiChar::LineFeed { i -= 1; }
back_to_line_feed(h, r, i) ==
    IF i > 0 /\ At(h, r, i - 1) # LineFeed THEN back_to_line_feed(h, r, i - 1) ELSE i

lines_next_back_keeping_cr(h, ln) ==
    LET s == ln.string
        len == s.hi - s.lo
    IN  IF len = 0 THEN [item |-> None, lines |-> ln]
        ELSE LET i1 == IF At(h, s, len - 1) = LineFeed THEN len - 1 ELSE len
                 s1 == Range(s.lo, s.lo + i1)
                 i2 == back_to_line_feed(h, s1, i1)
             IN  [item |-> Some(Range(s1.lo + i2, s1.hi)),
                  lines |-> [string |-> Range(s1.lo, s1.lo + i2)]]

\* impl DoubleEndedIterator for Lines: next_back
lines_next_back(h, ln) ==
    LET s == ln.string
        len == s.hi - s.lo
    IN  IF len = 0 THEN [item |-> None, lines |-> ln]
        ELSE LET i1 == IF At(h, s, len - 1) = LineFeed
                       THEN IF len - 1 > 0 /\ At(h, s, len - 2) = CarriageReturn
                            THEN len - 2 ELSE len - 1
                       ELSE len
                 s1 == Range(s.lo, s.lo + i1)
                 i2 == back_to_line_feed(h, s1, i1)
             IN  [item |-> Some(Range(s1.lo + i2, s1.hi)),
                  lines |-> [string |-> Range(s1.lo, s1.lo + i2)]]

LinesIdle ==
    /\ text = <<>>
    /\ lines = lines_new(<<>>)
    /\ lines_out = NoItems

LinesStart ==
    /\ text \in LinesViews
    /\ lines = lines_new(text)
    /\ lines_out = NoItems

\* the caller's next() on the iterator
LinesNext ==
    LET r == lines_next(text, lines)
    IN  /\ lines' = r.lines
        /\ lines_out' =
            IF r.item = None THEN [lines_out EXCEPT !.last = "None"]
            ELSE [lines_out EXCEPT !.fronts = Append(@, r.item[1]), !.last = "Some"]
        /\ UNCHANGED <<text, conv_vars, buf_vars, split_vars>>

\* the caller's next_back() on the iterator
LinesNextBack ==
    LET r == lines_next_back(text, lines)
    IN  /\ lines' = r.lines
        /\ lines_out' =
            IF r.item = None THEN [lines_out EXCEPT !.last = "None"]
            ELSE [lines_out EXCEPT !.backs = Append(@, r.item[1]), !.last = "Some"]
        /\ UNCHANGED <<text, conv_vars, buf_vars, split_vars>>

NextLines ==
    \/ LinesNext
    \/ LinesNextBack

---------------------------------------------------------------------------
(* Methods of AsciiStr and AsciiChar that compute a value from their       *)
(* arguments: one call, its argument and what it returned.                 *)

Space == 32
Tab == 9

\* AsciiChar::is_blank
is_blank(ch) == ch = Space \/ ch = Tab

is_whitespace_without_cr(ch) == is_blank(ch) \/ ch = LineFeed

\* AsciiChar::is_whitespace
is_whitespace(ch) == is_blank(ch) \/ ch = LineFeed \/ ch = CarriageReturn

RECURSIVE take_while_is_whitespace(_, _)
\* self.chars().take_while(|a| a.is_whitespace()).count()
take_while_is_whitespace(h, c) ==
    IF c.lo < c.hi /\ is_whitespace(h[c.lo + 1])
    THEN 1 + take_while_is_whitespace(h, Range(c.lo + 1, c.hi))
    ELSE 0

RECURSIVE rev_take_while_is_whitespace(_, _)
\* self.chars().rev().take_while(|a| a.is_whitespace()).count()
rev_take_while_is_whitespace(h, c) ==
    IF c.lo < c.hi /\ is_whitespace(h[c.hi])
    THEN 1 + rev_take_while_is_whitespace(h, Range(c.lo, c.hi - 1))
    ELSE 0

\* AsciiStr::trim_start: &self[count..]
trim_start(h, r) == Range(r.lo + take_while_is_whitespace(h, chars(r)), r.hi)

trim_end_at_most_one(h, r) ==
    Range(r.lo, r.lo + ((r.hi - r.lo)
                         - (IF rev_take_while_is_whitespace(h, chars(r)) > 0 THEN 1 ELSE 0)))

\* AsciiStr::trim_end: &self[..self.len() - trimmed]
trim_end(h, r) ==
    Range(r.lo, r.lo + ((r.hi - r.lo) - rev_take_while_is_whitespace(h, chars(r))))

\* AsciiStr::trim: self.trim_start().trim_end()
trim(h, r) == trim_end(h, trim_start(h, r))

\* units of the views that are trimmed: the four whitespace units, the
\* vertical tab and 'X'
TrimChars == {Space, Tab, LineFeed, CarriageReturn, 11, 88}

\* " \tXY\t " besides the views of TrimChars
TrimExamples == {<<32, 9, 88, 89, 9, 32>>}
TrimViews == SeqsUpTo(TrimChars, MaxViewLen) \cup TrimExamples

\* the whole of a view
Whole(s) == Range(0, Len(s))

\* u8::eq_ignore_ascii_case
u8_eq_ignore_ascii_case(a, b) == u8_to_ascii_lowercase(a) = u8_to_ascii_lowercase(b)

\* AsciiChar::eq_ignore_ascii_case
AsciiChar_eq_ignore_ascii_case(a, b) == u8_eq_ignore_ascii_case(as_byte(a), as_byte(b))

\* the pairs self.chars().zip(other.chars()) yields
zip(s, o) ==
    [i \in 1..(IF Len(s) <= Len(o) THEN Len(s) ELSE Len(o)) |-> <<s[i], o[i]>>]

eq_ignore_ascii_case_zip_only(s, o) ==
    \A i \in 1..Len(zip(s, o)) :
        AsciiChar_eq_ignore_ascii_case(zip(s, o)[i][1], zip(s, o)[i][2])

\* AsciiStr::eq_ignore_ascii_case
eq_ignore_ascii_case(s, o) ==
    /\ Len(s) = Len(o)
    /\ \A i \in 1..Len(zip(s, o)) :
           AsciiChar_eq_ignore_ascii_case(zip(s, o)[i][1], zip(s, o)[i][2])

\* AsciiStr::to_ascii_uppercase (ascii_str.rs)
AsciiStr_to_ascii_uppercase(s) == make_ascii_uppercase(to_ascii_string(s))

\* AsciiStr::to_ascii_lowercase (ascii_str.rs)
AsciiStr_to_ascii_lowercase(s) == make_ascii_lowercase(to_ascii_string(s))

\* impl AsciiExt for AsciiStr (lib.rs): to_ascii_uppercase
AsciiExt_to_ascii_uppercase(s) == make_ascii_uppercase(to_ascii_string(s))

\* impl AsciiExt for AsciiStr (lib.rs): to_ascii_lowercase, which calls
\* ascii_string.make_ascii_uppercase()
AsciiExt_to_ascii_lowercase(s) == make_ascii_uppercase(to_ascii_string(s))

\* u8::wrapping_sub
wrapping_sub(a, b) == (a - b + 256) % 256

\* AsciiChar::is_graph: self.as_byte().wrapping_sub(b' '+1) < 0x5E
is_graph(ch) == wrapping_sub(as_byte(ch), 32 + 1) < 94

\* AsciiChar::is_print: self.as_byte().wrapping_sub(b' ') < 0x5F
is_print(ch) == wrapping_sub(as_byte(ch), 32) < 95

\* AsciiChar::is_lowercase: self.as_byte().wrapping_sub(b'a') < 26
is_lowercase(ch) == wrapping_sub(as_byte(ch), 97) < 26

\* AsciiChar::is_uppercase: self.as_byte().wrapping_sub(b'A') < 26
is_uppercase(ch) == wrapping_sub(as_byte(ch), 65) < 26

\* the outcomes of a - b on u8: the difference; when it is below zero a
\* panic in a build with overflow checks and the wrapped difference in a
\* build without
u8_sub(a, b) ==
    IF a >= b THEN {[panic |-> FALSE, v |-> a - b]}
    ELSE {[panic |-> TRUE, v |-> 0], [panic |-> FALSE, v |-> (a - b + 256) % 256]}

\* what a method of bool result gives when its subtraction has the outcome o
BoolOrPanic(o, limit) ==
    IF o.panic THEN Val("panic", Unit) ELSE Val("bool", o.v < limit)

\* Ascii::is_graph (lib.rs): (self.chr - 0x21) < 0x5E
Ascii_is_graph(chr) == {BoolOrPanic(o, 94) : o \in u8_sub(chr, 33)}

\* Ascii::is_print (lib.rs): (self.chr - 0x20) < 0x5F
Ascii_is_print(chr) == {BoolOrPanic(o, 95) : o \in u8_sub(chr, 32)}

\* Ascii::is_lowercase (lib.rs): (self.chr - b'a') < 26
Ascii_is_lowercase(chr) == {BoolOrPanic(o, 26) : o \in u8_sub(chr, 97)}

\* Ascii::is_uppercase (lib.rs): (self.chr - b'A') < 26
Ascii_is_uppercase(chr) == {BoolOrPanic(o, 26) : o \in u8_sub(chr, 65)}

\* units of the views that are case mapped: '@', 'A', 'Z', '[', '`', 'a',
\* 'z', '{'
CaseChars == {64, 65, 90, 91, 96, 97, 122, 123}

\* tests::to_ascii_case: "a@A" and "A@a" besides the views of CaseChars
CaseExamples == {<<97, 64, 65>>, <<65, 64, 97>>}
CaseViews == SeqsUpTo(CaseChars, MaxArgLen) \cup CaseExamples

\* units of the views that are compared: '@', 'A', '`', 'a'
PairChars == {64, 65, 96, 97}

\* "Abc" with "aBC" and with "abcd", every two single units, and every two
\* views of PairChars
PairExamples == {<< <<65, 98, 99>>, <<97, 66, 67>> >>, << <<65, 98, 99>>, <<97, 98, 99, 100>> >>}
ViewPairs ==
    PairExamples
        \cup {<< <<x>>, <<y>> >> : x \in 0..127, y \in 0..127}
        \cup (SeqsUpTo(PairChars, MaxArgLen) \X SeqsUpTo(PairChars, MaxArgLen))

RECURSIVE u8_bitor(_, _)
\* a | b on u8
u8_bitor(a, b) ==
    IF a = 0 THEN b
    ELSE IF b = 0 THEN a
    ELSE 2 * u8_bitor(a \div 2, b \div 2) + (IF a % 2 = 1 \/ b % 2 = 1 THEN 1 ELSE 0)

is_alphabetic_lowercase_only(ch) == as_byte(ch) >= 97 /\ as_byte(ch) <= 122

\* AsciiChar::is_alphabetic: c = self.as_byte() | 0b010_0000,
\* c >= b'a' && c <= b'z'
is_alphabetic(ch) ==
    u8_bitor(as_byte(ch), 32) >= 97 /\ u8_bitor(as_byte(ch), 32) <= 122

\* Ascii::is_alphabetic (ascii.rs): the two intervals 0x41..=0x5A, 0x61..=0x7A
Ascii_is_alphabetic(chr) == (chr >= 65 /\ chr <= 90) \/ (chr >= 97 /\ chr <= 122)

\* a panic of the calling thread
Panic == Val("panic", Unit)

\* the index types of impl_index!, each with the bounds it carries
Index(kind, start, end) == [kind |-> kind, start |-> start, end |-> end]

into_range_exclusive(idx, n) ==
    CASE idx.kind = "Range"            -> Range(idx.start, idx.end)
      [] idx.kind = "RangeTo"          -> Range(0, idx.end)
      [] idx.kind = "RangeFrom"        -> Range(idx.start, n)
      [] idx.kind = "RangeFull"        -> Range(0, n)
      [] idx.kind = "RangeInclusive"   -> Range(idx.start, idx.end)
      [] idx.kind = "RangeToInclusive" -> Range(0, idx.end)

\* the half-open range of positions self.slice[index] takes of a slice of
\* length n: a..=b and ..=b take up to and including b
into_range(idx, n) ==
    CASE idx.kind = "Range"            -> Range(idx.start, idx.end)
      [] idx.kind = "RangeTo"          -> Range(0, idx.end)
      [] idx.kind = "RangeFrom"        -> Range(idx.start, n)
      [] idx.kind = "RangeFull"        -> Range(0, n)
      [] idx.kind = "RangeInclusive"   -> Range(idx.start, idx.end + 1)
      [] idx.kind = "RangeToInclusive" -> Range(0, idx.end + 1)

\* impl Index<$idx> for AsciiStr: self.slice[index].as_ref(), the bounds
\* check of the slice, then a view of the same units
AsciiStr_index(s, idx) ==
    IF into_range(idx, Len(s)).lo > into_range(idx, Len(s)).hi
          \/ into_range(idx, Len(s)).hi > Len(s)
    THEN Panic
    ELSE Val("AsciiStr", into_range(idx, Len(s)))

\* impl Index<usize> for AsciiStr: &self.slice[index]
AsciiStr_index_usize(s, index) ==
    IF index >= Len(s) THEN Panic ELSE Val("AsciiChar", s[index + 1])

\* units of the views that are indexed: 'A' and 'B'
IndexChars == {65, 66}

\* tests::index: [A, B, C, D] besides the views of IndexChars
IndexExamples == {<<65, 66, 67, 68>>}
IndexViews == SeqsUpTo(IndexChars, MaxViewLen) \cup IndexExamples

\* positions and bounds up to one past the longest view's length
IndexBounds == 0..(MaxViewLen + 1)
Indexes ==
    {Index("Range", a, b) : a \in IndexBounds, b \in IndexBounds}
        \cup {Index("RangeTo", 0, b) : b \in IndexBounds}
        \cup {Index("RangeFrom", a, 0) : a \in IndexBounds}
        \cup {Index("RangeFull", 0, 0)}
        \cup {Index("RangeInclusive", a, b) : a \in IndexBounds, b \in IndexBounds}
        \cup {Index("RangeToInclusive", 0, b) : b \in IndexBounds}

\* AsciiStr::as_str: the same bytes as a str, each unit one character
as_str(view) == [i \in 1..Len(view) |-> as_byte(view[i])]

\* AsciiStr::as_slice
as_slice(view) == view

\* <AsciiStr as AsRef<$wider>>::as_ref
AsRef_as_ref(view, wider) ==
    CASE wider = "str"         -> as_str(view)
      [] wider = "[u8]"        -> as_bytes(view)
      [] wider = "[AsciiChar]" -> as_slice(view)

wider_eq_prefix(wider, a, b) ==
    IF wider = "str"
    THEN \A i \in 1..Len(zip(str_as_bytes(a), str_as_bytes(b))) :
            str_as_bytes(a)[i] = str_as_bytes(b)[i]
    ELSE \A i \in 1..Len(zip(a, b)) : a[i] = b[i]

\* == of two values of the wider type: a str by its bytes, a slice by its
\* elements
wider_eq(wider, a, b) ==
    IF wider = "str" THEN str_as_bytes(a) = str_as_bytes(b) ELSE a = b

\* Deref of AsciiString and String, and of a reference
deref(x) ==
    CASE x.ty \in {"AsciiString", "&AsciiStr"} -> Val("AsciiStr", x.v)
      [] x.ty \in {"String", "&str"}           -> Val("str", x.v)

\* the types impl_partial_eq! is invoked for
Wider == {"str", "[u8]", "[AsciiChar]"}

\* the pairs of types impl_eq! is invoked for
ImplEq ==
    {<<"AsciiString", "String">>, <<"String", "AsciiString">>,
     <<"&AsciiStr", "String">>, <<"String", "&AsciiStr">>,
     <<"&AsciiStr", "AsciiString">>, <<"AsciiString", "&AsciiStr">>,
     <<"&str", "AsciiString">>, <<"AsciiString", "&str">>}

RECURSIVE eq(_, _)
\* a == b by the implementation of PartialEq for the two types
eq(a, b) ==
    CASE a.ty = b.ty /\ a.ty \in {"AsciiStr", "AsciiString"} -> a.v = b.v
      [] a.ty = "AsciiStr" /\ b.ty \in Wider ->
            wider_eq(b.ty, AsRef_as_ref(a.v, b.ty), b.v)
      [] a.ty \in Wider /\ b.ty = "AsciiStr" ->
            wider_eq(a.ty, a.v, AsRef_as_ref(b.v, a.ty))
      [] a.ty = "AsciiString" /\ b.ty = "str" -> eq(deref(a), b)
      [] a.ty = "str" /\ b.ty = "AsciiString" -> eq(deref(b), a)
      [] <<a.ty, b.ty>> \in ImplEq -> eq(deref(a), deref(b))

\* every two types that can be compared
EqTypes ==
    {<<"AsciiStr", "AsciiStr">>, <<"AsciiString", "AsciiString">>,
     <<"AsciiString", "str">>, <<"str", "AsciiString">>}
        \cup {<<"AsciiStr", w>> : w \in Wider}
        \cup {<<w, "AsciiStr">> : w \in Wider}
        \cup ImplEq

\* units, bytes and characters of the values that are compared: 'A' and DEL,
\* and 0x80 or U+0080
EqChars == {65, 127}
EqWide == {65, 127, 128}
EqValues(ty) ==
    {Val(ty, v) : v \in SeqsUpTo(IF ty \in {"str", "&str", "String", "[u8]"}
                                 THEN EqWide ELSE EqChars, MaxArgLen)}

StrStart ==
    /\ call = "none"
    /\ arg \in {Val("AsciiStr", s) : s \in TrimViews \cup CaseViews}
               \cup {Val("(AsciiStr, AsciiStr)", pair) : pair \in ViewPairs}
               \cup {Val("AsciiChar", ch) : ch \in 0..127}
               \cup {Val("(AsciiStr, Index)", <<s, idx>>) : s \in IndexViews, idx \in Indexes}
               \cup {Val("(AsciiStr, usize)", <<s, i>>) : s \in IndexViews, i \in IndexBounds}
               \cup {Val("(lhs, rhs)", <<a, b>>) :
                        a \in UNION {EqValues(t[1]) : t \in EqTypes},
                        b \in UNION {EqValues(t[2]) : t \in EqTypes}}
    /\ arg.ty = "(lhs, rhs)" => <<arg.v[1].ty, arg.v[2].ty>> \in EqTypes
    /\ res = Ok("none", <<>>)
    /\ back = None

CallTrim ==
    /\ arg.ty = "AsciiStr"
    /\ call' = "trim"
    /\ res' = Val("AsciiStr", trim(arg.v, Whole(arg.v)))
    /\ UNCHANGED <<arg, back, buf_vars, split_vars, lines_vars>>

CallTrimStart ==
    /\ arg.ty = "AsciiStr"
    /\ call' = "trim_start"
    /\ res' = Val("AsciiStr", trim_start(arg.v, Whole(arg.v)))
    /\ UNCHANGED <<arg, back, buf_vars, split_vars, lines_vars>>

CallTrimEnd ==
    /\ arg.ty = "AsciiStr"
    /\ call' = "trim_end"
    /\ res' = Val("AsciiStr", trim_end(arg.v, Whole(arg.v)))
    /\ UNCHANGED <<arg, back, buf_vars, split_vars, lines_vars>>

CallEqIgnoreAsciiCase ==
    /\ arg.ty = "(AsciiStr, AsciiStr)"
    /\ call' = "eq_ignore_ascii_case"
    /\ res' = Val("bool", eq_ignore_ascii_case(arg.v[1], arg.v[2]))
    /\ UNCHANGED <<arg, back, buf_vars, split_vars, lines_vars>>

CallAsciiStrToAsciiUppercase ==
    /\ arg.ty = "AsciiStr"
    /\ call' = "AsciiStr_to_ascii_uppercase"
    /\ res' = Val("AsciiString", AsciiStr_to_ascii_uppercase(arg.v))
    /\ UNCHANGED <<arg, back, buf_vars, split_vars, lines_vars>>

CallAsciiStrToAsciiLowercase ==
    /\ arg.ty = "AsciiStr"
    /\ call' = "AsciiStr_to_ascii_lowercase"
    /\ res' = Val("AsciiString", AsciiStr_to_ascii_lowercase(arg.v))
    /\ UNCHANGED <<arg, back, buf_vars, split_vars, lines_vars>>

CallAsciiExtToAsciiUppercase ==
    /\ arg.ty = "AsciiStr"
    /\ call' = "AsciiExt_to_ascii_uppercase"
    /\ res' = Val("AsciiString", AsciiExt_to_ascii_uppercase(arg.v))
    /\ UNCHANGED <<arg, back, buf_vars, split_vars, lines_vars>>

CallAsciiExtToAsciiLowercase ==
    /\ arg.ty = "AsciiStr"
    /\ call' = "AsciiExt_to_ascii_lowercase"
    /\ res' = Val("AsciiString", AsciiExt_to_ascii_lowercase(arg.v))
    /\ UNCHANGED <<arg, back, buf_vars, split_vars, lines_vars>>

CallToAsciiUppercase ==
    /\ arg.ty = "AsciiChar"
    /\ call' = "to_ascii_uppercase"
    /\ res' = Val("AsciiChar", to_ascii_uppercase(arg.v))
    /\ UNCHANGED <<arg, back, buf_vars, split_vars, lines_vars>>

CallToAsciiLowercase ==
    /\ arg.ty = "AsciiChar"
    /\ call' = "to_ascii_lowercase"
    /\ res' = Val("AsciiChar", to_ascii_lowercase(arg.v))
    /\ UNCHANGED <<arg, back, buf_vars, split_vars, lines_vars>>

CallIsGraph ==
    /\ arg.ty = "AsciiChar"
    /\ call' = "is_graph"
    /\ res' = Val("bool", is_graph(arg.v))
    /\ UNCHANGED <<arg, back, buf_vars, split_vars, lines_vars>>

CallIsPrint ==
    /\ arg.ty = "AsciiChar"
    /\ call' = "is_print"
    /\ res' = Val("bool", is_print(arg.v))
    /\ UNCHANGED <<arg, back, buf_vars, split_vars, lines_vars>>

CallIsLowercase ==
    /\ arg.ty = "AsciiChar"
    /\ call' = "is_lowercase"
    /\ res' = Val("bool", is_lowercase(arg.v))
    /\ UNCHANGED <<arg, back, buf_vars, split_vars, lines_vars>>

CallIsUppercase ==
    /\ arg.ty = "AsciiChar"
    /\ call' = "is_uppercase"
    /\ res' = Val("bool", is_uppercase(arg.v))
    /\ UNCHANGED <<arg, back, buf_vars, split_vars, lines_vars>>

CallAsciiIsGraph ==
    /\ arg.ty = "AsciiChar"
    /\ call' = "Ascii_is_graph"
    /\ res' \in Ascii_is_graph(arg.v)
    /\ UNCHANGED <<arg, back, buf_vars, split_vars, lines_vars>>

CallAsciiIsPrint ==
    /\ arg.ty = "AsciiChar"
    /\ call' = "Ascii_is_print"
    /\ res' \in Ascii_is_print(arg.v)
    /\ UNCHANGED <<arg, back, buf_vars, split_vars, lines_vars>>

CallAsciiIsLowercase ==
    /\ arg.ty = "AsciiChar"
    /\ call' = "Ascii_is_lowercase"
    /\ res' \in Ascii_is_lowercase(arg.v)
    /\ UNCHANGED <<arg, back, buf_vars, split_vars, lines_vars>>

CallAsciiIsUppercase ==
    /\ arg.ty = "AsciiChar"
    /\ call' = "Ascii_is_uppercase"
    /\ res' \in Ascii_is_uppercase(arg.v)
    /\ UNCHANGED <<arg, back, buf_vars, split_vars, lines_vars>>

CallIndex ==
    /\ arg.ty = "(AsciiStr, Index)"
    /\ call' = "index"
    /\ res' = AsciiStr_index(arg.v[1], arg.v[2])
    /\ UNCHANGED <<arg, back, buf_vars, split_vars, lines_vars>>

CallIndexUsize ==
    /\ arg.ty = "(AsciiStr, usize)"
    /\ call' = "index_usize"
    /\ res' = AsciiStr_index_usize(arg.v[1], arg.v[2])
    /\ UNCHANGED <<arg, back, buf_vars, split_vars, lines_vars>>

CallEq ==
    /\ arg.ty = "(lhs, rhs)"
    /\ call' = "eq"
    /\ res' = Val("bool", eq(arg.v[1], arg.v[2]))
    /\ UNCHANGED <<arg, back, buf_vars, split_vars, lines_vars>>

CallIsAlphabetic ==
    /\ arg.ty = "AsciiChar"
    /\ call' = "is_alphabetic"
    /\ res' = Val("bool", is_alphabetic(arg.v))
    /\ UNCHANGED <<arg, back, buf_vars, split_vars, lines_vars>>

CallAsciiIsAlphabetic ==
    /\ arg.ty = "AsciiChar"
    /\ call' = "Ascii_is_alphabetic"
    /\ res' = Val("bool", Ascii_is_alphabetic(arg.v))
    /\ UNCHANGED <<arg, back, buf_vars, split_vars, lines_vars>>

NextStr ==
    \/ CallTrim
    \/ CallTrimStart
    \/ CallTrimEnd
    \/ CallEqIgnoreAsciiCase
    \/ CallAsciiStrToAsciiUppercase
    \/ CallAsciiStrToAsciiLowercase
    \/ CallAsciiExtToAsciiUppercase
    \/ CallAsciiExtToAsciiLowercase
    \/ CallToAsciiUppercase
    \/ CallToAsciiLowercase
    \/ CallIsGraph
    \/ CallIsPrint
    \/ CallIsLowercase
    \/ CallIsUppercase
    \/ CallAsciiIsGraph
    \/ CallAsciiIsPrint
    \/ CallAsciiIsLowercase
    \/ CallAsciiIsUppercase
    \/ CallIndex
    \/ CallIndexUsize
    \/ CallEq
    \/ CallIsAlphabetic
    \/ CallAsciiIsAlphabetic

---------------------------------------------------------------------------
(* ffi: AsciiCStr, a borrowed nul-terminated run of ASCII bytes, and       *)
(* AsciiCString, the owned one.                                            *)

RECURSIVE memchr(_, _, _)
\* memchr::memchr(needle, haystack) of a haystack scanned up to i: the
\* 0-based index of the first byte equal to needle
memchr(needle, haystack, i) ==
    IF i >= Len(haystack) THEN None
    ELSE IF haystack[i + 1] = needle THEN Some(i)
    ELSE memchr(needle, haystack, i + 1)

\* pub struct FromBytesWithNulError { kind, pos }
FromBytesWithNulError(kind, pos) == [kind |-> kind, pos |-> pos]

\* FromBytesWithNulError::interior_nul
interior_nul(pos) == FromBytesWithNulError("InteriorNul", pos)

\* FromBytesWithNulError::not_nul_terminated
not_nul_terminated(len) == FromBytesWithNulError("NotNulTerminated", len)

\* FromBytesWithNulError::not_ascii
not_ascii(index) == FromBytesWithNulError("NotAscii", index)

\* FromBytesWithNulError::valid_up_to: self.pos
FromBytesWithNulError_valid_up_to(e) == e.pos

\* FromBytesWithNulError::kind: self.kind
kind(e) == e.kind

\* AsciiCStr::from_bytes_with_nul_unchecked: the same bytes
from_bytes_with_nul_unchecked(bytes) == bytes

from_bytes_with_nul_unvalidated(bytes) ==
    IF memchr(0, bytes, 0) # None
    THEN IF memchr(0, bytes, 0)[1] + 1 # Len(bytes)
         THEN Err("FromBytesWithNulError", interior_nul(memchr(0, bytes, 0)[1]))
         ELSE Ok("AsciiCStr", from_bytes_with_nul_unchecked(bytes))
    ELSE Err("FromBytesWithNulError", not_nul_terminated(Len(bytes)))

\* AsciiCStr::from_bytes_with_nul
from_bytes_with_nul(bytes) ==
    IF memchr(0, bytes, 0) # None
    THEN IF memchr(0, bytes, 0)[1] + 1 # Len(bytes)
         THEN Err("FromBytesWithNulError", interior_nul(memchr(0, bytes, 0)[1]))
         ELSE IF position(bytes, 0).some
              THEN Err("FromBytesWithNulError", not_ascii(position(bytes, 0).v))
              ELSE Ok("AsciiCStr", from_bytes_with_nul_unchecked(bytes))
    ELSE Err("FromBytesWithNulError", not_nul_terminated(Len(bytes)))

\* pub struct AsciiNulError<O> { error, owner }
AsciiNulError(error, owner) == [error |-> error, owner |-> owner]

from_vec_unchecked_without_nul(v) == v

\* AsciiCString::from_vec_unchecked: v.push(0), v.into_boxed_slice()
from_vec_unchecked(v) == Append(v, 0)

\* AsciiCString::new of a value of a type T: Into<Vec<u8>> + AsRef<[u8]>
AsciiCString_new(bytes) ==
    IF memchr(0, as_ref_bytes(bytes), 0) # None
    THEN Err("AsciiNulError",
             AsciiNulError(interior_nul(memchr(0, as_ref_bytes(bytes), 0)[1]), bytes))
    ELSE IF position(as_ref_bytes(bytes), 0).some
         THEN Err("AsciiNulError",
                  AsciiNulError(not_ascii(position(as_ref_bytes(bytes), 0).v), bytes))
         ELSE Ok("AsciiCString", from_vec_unchecked(as_ref_bytes(bytes)))

\* AsciiCString::into_bytes: the inner bytes with the last one popped
AsciiCString_into_bytes(inner) == pop(inner).vec

\* AsciiCString::into_bytes_with_nul
AsciiCString_into_bytes_with_nul(inner) == inner

\* AsciiCString::as_bytes: &self.inner[..self.inner.len() - 1]
AsciiCString_as_bytes(inner) == SubSeq(inner, 1, Len(inner) - 1)

\* AsciiCString::as_bytes_with_nul: &self.inner
AsciiCString_as_bytes_with_nul(inner) == inner

\* bytes and characters of the values that are given: nul, 'A', DEL, and
\* 0x80 or U+0080
FfiBytes == {0, 65, 127, 128}
FfiChars == {0, 65, 128}

\* the value a constructor is given: a byte slice, or a byte vector or String
FfiStart ==
    /\ call = "none"
    /\ arg \in {Val(ty, s) : ty \in {"[u8]", "Vec<u8>"}, s \in SeqsUpTo(FfiBytes, MaxViewLen)}
               \cup {Val("String", s) : s \in SeqsUpTo(FfiChars, MaxArgLen)}
    /\ res = Ok("none", <<>>)
    /\ back = None

CallFromBytesWithNul ==
    /\ arg.ty = "[u8]"
    /\ call' = "from_bytes_with_nul"
    /\ res' = from_bytes_with_nul(arg.v)
    /\ back' = None
    /\ UNCHANGED <<arg, buf_vars, split_vars, lines_vars>>

CallAsciiCStringNew ==
    /\ arg.ty \in {"Vec<u8>", "String"}
    /\ call' = "AsciiCString_new"
    /\ res' = AsciiCString_new(arg)
    /\ back' = None
    /\ UNCHANGED <<arg, buf_vars, split_vars, lines_vars>>

\* into_bytes() of the AsciiCString new gave
CallIntoBytes ==
    /\ res.ok /\ res.ty = "AsciiCString"
    /\ back' = Some(<<"into_bytes", AsciiCString_into_bytes(res.v)>>)
    /\ UNCHANGED <<call, arg, res, buf_vars, split_vars, lines_vars>>

\* into_bytes_with_nul() of the AsciiCString new gave
CallIntoBytesWithNul ==
    /\ res.ok /\ res.ty = "AsciiCString"
    /\ back' = Some(<<"into_bytes_with_nul", AsciiCString_into_bytes_with_nul(res.v)>>)
    /\ UNCHANGED <<call, arg, res, buf_vars, split_vars, lines_vars>>

\* as_bytes() of the AsciiCString new gave
CallCStringAsBytes ==
    /\ res.ok /\ res.ty = "AsciiCString"
    /\ back' = Some(<<"as_bytes", AsciiCString_as_bytes(res.v)>>)
    /\ UNCHANGED <<call, arg, res, buf_vars, split_vars, lines_vars>>

\* as_bytes_with_nul() of the AsciiCString new gave
CallCStringAsBytesWithNul ==
    /\ res.ok /\ res.ty = "AsciiCString"
    /\ back' = Some(<<"as_bytes_with_nul", AsciiCString_as_bytes_with_nul(res.v)>>)
    /\ UNCHANGED <<call, arg, res, buf_vars, split_vars, lines_vars>>

NextFfi ==
    \/ CallFromBytesWithNul
    \/ CallAsciiCStringNew
    \/ CallIntoBytes
    \/ CallIntoBytesWithNul
    \/ CallCStringAsBytes
    \/ CallCStringAsBytesWithNul

---------------------------------------------------------------------------
(* The specifications.                                                     *)

\* the AsciiString buffer, from AsciiString::new()
Init ==
    /\ ConvIdle /\ BufIdle /\ SplitIdle /\ LinesIdle
Next == NextBuf
Spec == Init /\ [][Next]_vars

\* the conversions, each on every input of the samples
InitConv ==
    /\ ConvStart /\ BufIdle /\ SplitIdle /\ LinesIdle
SpecConv == InitConv /\ [][NextConv]_vars

\* one Split iterator over every view and separator of the samples
InitSplit ==
    /\ ConvIdle /\ BufIdle /\ SplitStart /\ LinesIdle
SpecSplit == InitSplit /\ [][NextSplit]_vars

\* one Lines iterator over every view of the samples
InitLines ==
    /\ ConvIdle /\ BufIdle /\ SplitIdle /\ LinesStart
SpecLines == InitLines /\ [][NextLines]_vars

\* the methods of AsciiStr and AsciiChar, each on every argument of the samples
InitStr ==
    /\ StrStart /\ BufIdle /\ SplitIdle /\ LinesIdle
SpecStr == InitStr /\ [][NextStr]_vars


\* the constructors of AsciiCStr and AsciiCString, each on every value of the
\* samples
InitFfi ==
    /\ FfiStart /\ BufIdle /\ SplitIdle /\ LinesIdle
SpecFfi == InitFfi /\ [][NextFfi]_vars

---------------------------------------------------------------------------
(* Properties of the conversions, checked under SpecConv.                  *)

Min(S) == CHOOSE x \in S : \A y \in S : x <= y

\* the 0-based indices of a byte sequence that hold a byte above 127
NonAsciiAt(bytes) == {i \in 0..(Len(bytes) - 1) : bytes[i + 1] > 127}

\* the 0-based indices of a text that hold a character above U+007F
NonAsciiCharAt(s) == {i \in 0..(Len(s) - 1) : s[i + 1] > 127}

ViewCalls ==
    {"as_ascii_str_u8s", "as_mut_ascii_str_u8s", "as_ascii_str_str",
     "as_mut_ascii_str_str", "AsciiStr_from_ascii"}

OwnedCalls == {"AsciiString_from_ascii", "into_ascii_string", "into_ascii"}

SequenceCalls == ViewCalls \cup OwnedCalls \cup {"AsciiString_from_str", "to_ascii"}

\* C1: a validating conversion to an ASCII view succeeds iff every byte of
\* the input is <= 127; a failure's valid_up_to() is the index of the first
\* byte above 127, the prefix of that length validates and no longer prefix
\* does.
C1_ViewConversionValidates ==
    call \in ViewCalls =>
        LET bytes == as_ref_bytes(arg)
        IN  /\ res.ok <=> NonAsciiAt(bytes) = {}
            /\ res.ok => res.ty = "AsciiStr"
            /\ ~res.ok =>
                /\ res.ty = "AsAsciiStrError"
                /\ valid_up_to(res.v) = Min(NonAsciiAt(bytes))
                /\ \A n \in 0..Len(bytes) :
                       as_ascii_str_u8s(SubSeq(bytes, 1, n)).ok
                           <=> n <= valid_up_to(res.v)

C1_Witness ==
    /\ call = "as_ascii_str_u8s"
    /\ arg.v = <<65, 255, 128>>
    /\ res = AsAsciiStrError(1)

\* C3: an AsciiChar is made from a byte or a code point iff the whole value
\* is <= 127, whatever its low 8 bits are, and as_byte() of the AsciiChar is
\* that value.
C3_CharConversionValidates ==
    call \in {"u8_to_ascii_char", "char_to_ascii_char"} =>
        /\ res.ok <=> arg.v <= 127
        /\ res.ok => res.ty = "AsciiChar" /\ as_byte(res.v) = arg.v
        /\ ~res.ok => res = ToAsciiCharError(Unit)

C3_Witness ==
    /\ call = "char_to_ascii_char"
    /\ arg.v = 321
    /\ arg.v % 256 <= 127
    /\ ~res.ok

\* C4: an owned conversion to AsciiString is Ok iff every byte of the input
\* is <= 127; the Ok buffer holds the input's bytes in order, and the Err
\* value is the input itself, of the same type and content.
C4_OwnedConversionValidates ==
    call \in OwnedCalls =>
        LET bytes == as_ref_bytes(arg)
        IN  /\ res.ok <=> NonAsciiAt(bytes) = {}
            /\ res.ok =>
                /\ res.ty = "AsciiString"
                /\ Len(res.v) = Len(bytes)
                /\ \A i \in 1..Len(bytes) : as_byte(res.v[i]) = bytes[i]
            /\ ~res.ok => res.ty = arg.ty /\ res.v = arg.v

C4_Witness ==
    /\ call = "into_ascii"
    /\ arg = Val("String", <<65, 21326>>)
    /\ res = Err("String", <<65, 21326>>)

C7_WitnessOwned ==
    /\ call = "into_ascii_string"
    /\ arg = Val("Vec<u8>", <<127, 65>>)
    /\ back = Some(<<127, 65>>)

\* C25: decoding an AsciiChar from a character succeeds exactly when its
\* code point is at most 127, and from a string exactly when the string is
\* one character of code point at most 127; a rejected input gives an
\* invalid-value error that carries the input and no AsciiChar, an accepted
\* one the AsciiChar of that code point.
C25_Deserialize ==
    /\ call = "visit_char" =>
          /\ res.ok <=> arg.v <= 127
          /\ res.ok => res.ty = "AsciiChar" /\ as_byte(res.v) = arg.v
          /\ ~res.ok => res.ty = "invalid_value" /\ res.v = <<"Char", arg.v>>
    /\ call = "visit_str" =>
          /\ res.ok <=> Len(arg.v) = 1 /\ \A i \in 1..Len(arg.v) : arg.v[i] <= 127
          /\ res.ok => res.ty = "AsciiChar" /\ as_byte(res.v) = arg.v[1]
          /\ ~res.ok =>
                /\ res.ty = "invalid_value"
                /\ res.v \in {<<"Str", arg.v>>} \cup {<<"Char", arg.v[i]>> : i \in 1..Len(arg.v)}

\* the string "A" "A" is rejected
C25_Witness ==
    /\ call = "visit_str"
    /\ arg.v = <<65, 65>>
    /\ ~res.ok

\* the string "A" is accepted
C25_WitnessOk ==
    /\ call = "visit_str"
    /\ arg.v = <<65>>
    /\ res = Ok("AsciiChar", 65)

---------------------------------------------------------------------------
(* Properties of the AsciiString buffer, checked under Spec.               *)

\* C2: whatever methods were called on an AsciiString since new,
\* with_capacity or a successful from_ascii, every unit of the buffer is in
\* 0..=127, and so is every byte as_bytes and Into<Vec<u8>> expose.
C2_BufferIsAscii ==
    /\ \A i \in 1..Len(vec) : vec[i] \in 0..127
    /\ \A i \in 1..Len(vec) : as_bytes(vec)[i] \in 0..127
    /\ \A i \in 1..Len(vec) : into_vec_u8(vec)[i] \in 0..127

C2_Witness ==
    /\ ret.op = "make_ascii_uppercase"
    /\ vec = <<65, 127, 65>>
    /\ cap = MaxCap

\* C13 as stated: truncate(new_len) panics if new_len is greater than the
\* length; otherwise the buffer keeps its first new_len units and its
\* capacity.
C13_TruncatePanics ==
    [][ret'.op = "truncate" =>
          IF ret'.args[1] > Len(vec)
          THEN panicked'
          ELSE /\ ~panicked'
               /\ vec' = SubSeq(vec, 1, ret'.args[1])
               /\ cap' = cap]_vars

\* C14: insert(idx, ch) panics iff idx > len and remove(idx) iff idx >= len;
\* an insert that returns puts ch at idx, keeps the units before idx and
\* moves the units from idx on up by one, and a remove that returns gives
\* the unit at idx and moves the units after it down by one.
C14_InsertRemove ==
    [][/\ ret'.op = "insert" =>
            LET idx == ret'.args[1]
                ch == ret'.args[2]
            IN  /\ panicked' <=> idx > Len(vec)
                /\ panicked' => vec' = vec
                /\ ~panicked' =>
                    /\ Len(vec') = Len(vec) + 1
                    /\ vec'[idx + 1] = ch
                    /\ \A i \in 1..idx : vec'[i] = vec[i]
                    /\ \A i \in (idx + 1)..Len(vec) : vec'[i + 1] = vec[i]
       /\ ret'.op = "remove" =>
            LET idx == ret'.args[1]
            IN  /\ panicked' <=> idx >= Len(vec)
                /\ panicked' => vec' = vec
                /\ ~panicked' =>
                    /\ ret'.v = Some(vec[idx + 1])
                    /\ Len(vec') = Len(vec) - 1
                    /\ \A i \in 1..idx : vec'[i] = vec[i]
                    /\ \A i \in (idx + 2)..Len(vec) : vec'[i - 1] = vec[i]]_vars

C14_Witness ==
    /\ ret.op = "insert"
    /\ ret.args = <<3, 97>>
    /\ vec = <<65, 127>>
    /\ panicked

\* C15: after insert(i, c) has returned, remove(i) returns c and leaves the
\* buffer as it was before the insert, in content and length.
C15_InsertThenRemove ==
    [][(ret'.op = "insert" /\ ~panicked') =>
          LET i == ret'.args[1]
              c == ret'.args[2]
              r == remove(vec', i)
          IN  /\ i \in 0..Len(vec)
              /\ ~r.panic
              /\ r.ret = Some(c)
              /\ r.vec = vec
              /\ Len(r.vec) = Len(vec)]_vars

C15_Witness ==
    /\ ret.op = "insert"
    /\ ret.args = <<0, 127>>
    /\ vec = <<127, 65, 97>>
    /\ ~panicked
    /\ remove(vec, 0).vec = <<65, 97>>

RECURSIVE PopAll(_, _)
\* what n calls of pop() return, in call order
PopAll(v, n) ==
    IF n = 0 THEN <<>> ELSE <<pop(v).ret>> \o PopAll(pop(v).vec, n - 1)

\* C16: pop() on a buffer that is not empty returns its last unit and keeps
\* the units before it; on an empty buffer it returns None and the buffer
\* stays empty; push(c) followed by pop() returns Some(c) and gives the
\* buffer back, and len + 1 calls of pop() return the units in reverse order
\* and then None.
C16_Pop ==
    [][/\ ret'.op = "pop" =>
            /\ ~panicked'
            /\ vec = <<>> => ret'.v = None /\ vec' = <<>>
            /\ vec # <<>> =>
                /\ ret'.v = Some(vec[Len(vec)])
                /\ vec' = SubSeq(vec, 1, Len(vec) - 1)
       /\ ret'.op = "push" =>
            /\ pop(vec').ret = Some(ret'.args[1])
            /\ pop(vec').vec = vec
       /\ PopAll(vec', Len(vec') + 1) =
              [i \in 1..Len(vec') |-> Some(vec'[Len(vec') + 1 - i])] \o <<None>>]_vars

C16_Witness ==
    /\ ret.op = "pop"
    /\ ret.v = Some(127)
    /\ vec = <<65, 97>>

---------------------------------------------------------------------------
(* Properties of Split, checked under SpecSplit.                           *)

Reverse(s) == [i \in 1..Len(s) |-> s[Len(s) + 1 - i]]

\* the units of every view of a sequence of views
Contents(h, items) == [i \in 1..Len(items) |-> Units(h, items[i])]

\* the 1-based places of a view that hold the unit c
PlacesOf(h, c) == {i \in 1..Len(h) : h[i] = c}

\* the k-th smallest of the places S of a view of length len; 0 before the
\* first and len + 1 after the last
Bound(S, k, len) ==
    IF k = 0 THEN 0
    ELSE IF k > Cardinality(S) THEN len + 1
    ELSE CHOOSE p \in S : Cardinality({q \in S : q <= p}) = k

\* the maximal c-free segments of a view, left to right: what lies between
\* two neighbouring occurrences of c, before the first and after the last
Segments(h, c) ==
    LET S == PlacesOf(h, c)
    IN  [k \in 1..(Cardinality(S) + 1) |->
            Range(Bound(S, k - 1, Len(h)), Bound(S, k, Len(h)) - 1)]

\* C8: split(c) read with next() alone yields the maximal c-free segments of
\* the view from left to right, (occurrences of c) + 1 of them, empty ones
\* included; "1,2,3" on ',' gives "1", "2", "3", the empty view gives one
\* empty view and "|||" on '|' gives four empty views.
C8_SplitForward ==
    split_out.backs = <<>> =>
        LET segs == Segments(hay, split.on)
            fronts == split_out.fronts
        IN  /\ Len(fronts) <= Len(segs)
            /\ \A k \in 1..Len(fronts) : fronts[k] = segs[k]
            /\ \A k \in 1..Len(fronts) :
                   \A i \in 1..Len(Units(hay, fronts[k])) :
                       Units(hay, fronts[k])[i] # split.on
            /\ split.ended =>
                /\ fronts = segs
                /\ Len(fronts) = Cardinality(PlacesOf(hay, split.on)) + 1
            /\ split_out.last = "None" => split.ended
            /\ (split.ended /\ hay = <<49, 44, 50, 44, 51>> /\ split.on = 44) =>
                   Contents(hay, fronts) = << <<49>>, <<50>>, <<51>> >>
            /\ (split.ended /\ hay = <<>>) =>
                   Contents(hay, fronts) = << <<>> >>
            /\ (split.ended /\ hay = <<124, 124, 124>> /\ split.on = 124) =>
                   Contents(hay, fronts) = << <<>>, <<>>, <<>>, <<>> >>

C8_Witness ==
    /\ hay = <<49, 44, 50, 44, 51>>
    /\ split.on = 44
    /\ split_out.backs = <<>>
    /\ split_out.last = "None"
    /\ Contents(hay, split_out.fronts) = << <<49>>, <<50>>, <<51>> >>

\* C9: however next() and next_back() are interleaved on one Split, the
\* items of next() are the first segments in order and the items of
\* next_back() the last segments in reverse order, no segment is given twice,
\* and once the iterator has ended the items of next() followed by the
\* reverse of the items of next_back() are all the segments in order.
C9_SplitDoubleEnded ==
    LET segs == Segments(hay, split.on)
        fronts == split_out.fronts
        backs == split_out.backs
    IN  /\ Len(fronts) + Len(backs) <= Len(segs)
        /\ \A k \in 1..Len(fronts) : fronts[k] = segs[k]
        /\ \A k \in 1..Len(backs) : backs[k] = segs[Len(segs) + 1 - k]
        /\ split.ended => fronts \o Reverse(backs) = segs
        /\ split_out.last = "None" => split.ended
        /\ (split.ended /\ fronts = <<>>) => backs = Reverse(segs)

C9_Witness ==
    /\ hay = <<49, 44, 44, 49>>
    /\ split.on = 44
    /\ split.ended
    /\ Contents(hay, split_out.fronts) = << <<49>> >>
    /\ Contents(hay, split_out.backs) = << <<49>>, <<>> >>

\* the calls of next() and next_back() that returned Some so far
SomeCount == Len(split_out.fronts) + Len(split_out.backs)

\* C27: a Split over a view with k occurrences of the separator returns Some
\* exactly k + 1 times over next() and next_back() together, however the two
\* are interleaved: every call before the iterator has ended returns Some,
\* the call that returns the (k + 1)-th sets ended, and every call after it
\* returns None and leaves the iterator ended.
C27_SplitFinite ==
    /\ [](/\ SomeCount <= Cardinality(PlacesOf(hay, split.on)) + 1
          /\ split.ended <=> SomeCount = Cardinality(PlacesOf(hay, split.on)) + 1)
    /\ [][IF split.ended
          THEN split_out'.last = "None" /\ SomeCount' = SomeCount /\ split'.ended
          ELSE split_out'.last = "Some" /\ SomeCount' = SomeCount + 1]_vars

\* ",1," on ',': two items from next(), one from next_back(), then None
C27_Witness ==
    /\ hay = <<44, 49, 44>>
    /\ split.on = 44
    /\ Len(split_out.fronts) = 2 /\ Len(split_out.backs) = 1
    /\ split.ended
    /\ split_out.last = "None"

RECURSIVE Join(_, _)
\* the sequences of ss one after another with one c between two neighbours
Join(ss, c) ==
    IF Len(ss) = 0 THEN <<>>
    ELSE IF Len(ss) = 1 THEN ss[1]
    ELSE ss[1] \o <<c>> \o Join(Tail(ss), c)

\* C30: no view that split(c) yields holds c, and the views it has yielded
\* when it has ended, in forward order with one c between two neighbours,
\* are the view that was split, unit for unit.
C30_SplitJoin ==
    /\ \A k \in 1..Len(split_out.fronts) :
           \A i \in 1..Len(Units(hay, split_out.fronts[k])) :
               Units(hay, split_out.fronts[k])[i] # split.on
    /\ \A k \in 1..Len(split_out.backs) :
           \A i \in 1..Len(Units(hay, split_out.backs[k])) :
               Units(hay, split_out.backs[k])[i] # split.on
    /\ split.ended =>
           Join(Contents(hay, split_out.fronts \o Reverse(split_out.backs)), split.on) = hay

\* "1,,1" on ',' read with next() alone: "1", "", "1"
C30_Witness ==
    /\ hay = <<49, 44, 44, 49>>
    /\ split.on = 44
    /\ split.ended
    /\ split_out.backs = <<>>
    /\ Contents(hay, split_out.fronts) = << <<49>>, <<>>, <<49>> >>
    /\ Join(Contents(hay, split_out.fronts), split.on) = hay

---------------------------------------------------------------------------
(* Properties of Lines, checked under SpecLines.                           *)

\* the lines of a view: what each LineFeed ends, without the LineFeed and
\* without one CarriageReturn of the line right before it, then what is left
\* after the last LineFeed if that is not empty
RefLines(h) ==
    LET S == PlacesOf(h, LineFeed)
        n == Cardinality(S)
        ended_line(k) ==
            LET lo == Bound(S, k - 1, Len(h))
                hi == Bound(S, k, Len(h)) - 1
            IN  IF hi > lo /\ h[hi] = CarriageReturn
                THEN Range(lo, hi - 1) ELSE Range(lo, hi)
        rest == Range(Bound(S, n, Len(h)), Len(h))
    IN  [k \in 1..n |-> ended_line(k)]
            \o (IF rest.lo < rest.hi THEN <<rest>> ELSE <<>>)

\* C10: lines() read with next() alone yields the lines of the view in
\* order: an empty line for a LineFeed that follows another, the unended
\* rest as the last line if it is not empty, nothing after a last LineFeed
\* and nothing for the empty view; "foo\r\nbar\n\nbaz\n" gives "foo", "bar",
\* "", "baz" and "\n" gives "".
C10_LinesForward ==
    lines_out.backs = <<>> =>
        LET ref == RefLines(text)
            fronts == lines_out.fronts
        IN  /\ Len(fronts) <= Len(ref)
            /\ \A k \in 1..Len(fronts) : fronts[k] = ref[k]
            /\ lines_out.last = "None" => fronts = ref
            /\ (lines_out.last = "None" /\ text \in LinesExamples) =>
                   Contents(text, fronts) =
                       << <<102, 111, 111>>, <<98, 97, 114>>, <<>>, <<98, 97, 122>> >>
            /\ (lines_out.last = "None" /\ text = <<LineFeed>>) =>
                   Contents(text, fronts) = << <<>> >>
            /\ (lines_out.last = "None" /\ text = <<>>) => fronts = <<>>

C10_Witness ==
    /\ text = <<102, 111, 111, 13, 10, 98, 97, 114, 10, 10, 98, 97, 122, 10>>
    /\ lines_out.backs = <<>>
    /\ lines_out.last = "None"
    /\ Contents(text, lines_out.fronts) =
           << <<102, 111, 111>>, <<98, 97, 114>>, <<>>, <<98, 97, 122>> >>

\* C11: however next() and next_back() are interleaved on one Lines, the
\* items of next() are the first lines in order and the items of next_back()
\* the last lines in reverse order, no line is given twice, and once the
\* iterator is exhausted the items of next() followed by the reverse of the
\* items of next_back() are all the lines in order.
C11_LinesDoubleEnded ==
    LET ref == RefLines(text)
        fronts == lines_out.fronts
        backs == lines_out.backs
        exhausted == lines.string.lo = lines.string.hi
    IN  /\ Len(fronts) + Len(backs) <= Len(ref)
        /\ \A k \in 1..Len(fronts) : fronts[k] = ref[k]
        /\ \A k \in 1..Len(backs) : backs[k] = ref[Len(ref) + 1 - k]
        /\ exhausted => fronts \o Reverse(backs) = ref
        /\ lines_out.last = "None" => exhausted
        /\ (exhausted /\ fronts = <<>>) => backs = Reverse(ref)

C11_Witness ==
    /\ text = <<97, 10, 10, 97>>
    /\ lines.string.lo = lines.string.hi
    /\ Contents(text, lines_out.fronts) = << <<97>> >>
    /\ Contents(text, lines_out.backs) = << <<97>>, <<>> >>

---------------------------------------------------------------------------
(* Properties of the methods of AsciiStr and AsciiChar, checked under      *)
(* SpecStr.                                                                *)

\* space, tab, line feed, carriage return
WhitespaceUnits == {32, 9, 10, 13}

\* the length of the longest prefix of whitespace units
LeadingWhitespace(s) ==
    Cardinality({n \in 1..Len(s) : \A i \in 1..n : s[i] \in WhitespaceUnits})

\* the length of the longest suffix of whitespace units
TrailingWhitespace(s) ==
    Cardinality({n \in 1..Len(s) :
                    \A i \in (Len(s) - n + 1)..Len(s) : s[i] \in WhitespaceUnits})

\* C12: trim_start gives the view without its longest whitespace prefix,
\* trim_end the view without its longest whitespace suffix and trim the view
\* without both, each a contiguous part of the view; a view of whitespace
\* alone trims to an empty view, and " \tXY\t " gives "XY", "XY\t " and
\* " \tXY".
C12_Trim ==
    call \in {"trim", "trim_start", "trim_end"} =>
        LET s == arg.v
            r == res.v
            lead == LeadingWhitespace(s)
            trail == TrailingWhitespace(s)
        IN  /\ 0 <= r.lo /\ r.lo <= r.hi /\ r.hi <= Len(s)
            /\ call = "trim_start" => r = Range(lead, Len(s))
            /\ call = "trim_end" => r = Range(0, Len(s) - trail)
            /\ (call = "trim" /\ lead < Len(s)) => r = Range(lead, Len(s) - trail)
            /\ lead = Len(s) => Units(s, r) = <<>>
            /\ s = <<32, 9, 88, 89, 9, 32>> =>
                   Units(s, r) = CASE call = "trim" -> <<88, 89>>
                                   [] call = "trim_start" -> <<88, 89, 9, 32>>
                                   [] call = "trim_end" -> <<32, 9, 88, 89>>

C12_Witness ==
    /\ call = "trim"
    /\ arg.v = <<32, 9, 88, 89, 9, 32>>
    /\ Units(arg.v, res.v) = <<88, 89>>

\* two units that are the same letter in either case, or the same unit
SameIgnoringCase(x, y) ==
    \/ x = y
    \/ x \in 65..90 /\ y = x + 32
    \/ x \in 97..122 /\ y = x - 32

\* C17: eq_ignore_ascii_case(a, b) is true iff a and b have the same length
\* and at every position hold the same letter in either case or the same
\* unit; "Abc" and "aBC" compare equal, "Abc" and "abcd" do not.
C17_EqIgnoreAsciiCase ==
    call = "eq_ignore_ascii_case" =>
        LET a == arg.v[1]
            b == arg.v[2]
        IN  /\ res.v <=> /\ Len(a) = Len(b)
                         /\ \A i \in 1..Len(a) : SameIgnoringCase(a[i], b[i])
            /\ (a = <<65, 98, 99>> /\ b = <<97, 66, 67>>) => res.v
            /\ (a = <<65, 98, 99>> /\ b = <<97, 98, 99, 100>>) => ~res.v

C17_Witness ==
    /\ call = "eq_ignore_ascii_case"
    /\ arg.v = << <<65, 98, 99>>, <<97, 98, 99, 100>> >>
    /\ res.v = FALSE

\* C18: to_ascii_uppercase and to_ascii_lowercase of an AsciiChar give a
\* value in 0..=127 that the same mapping leaves as it is.
C18_CaseMappingIdempotent ==
    /\ call = "to_ascii_uppercase" =>
        /\ res.v \in 0..127
        /\ to_ascii_uppercase(res.v) = res.v
    /\ call = "to_ascii_lowercase" =>
        /\ res.v \in 0..127
        /\ to_ascii_lowercase(res.v) = res.v

C18_Witness ==
    /\ call = "to_ascii_uppercase"
    /\ arg.v = 122
    /\ res.v = 90

\* the unit a case mapping of a view gives for the unit x
Uppercased(x) == IF x \in 97..122 THEN x - 32 ELSE x
Lowercased(x) == IF x \in 65..90 THEN x + 32 ELSE x

\* C19 as stated: to_ascii_uppercase of a view gives a buffer of the same
\* length with 'a'..'z' replaced by 'A'..'Z', to_ascii_lowercase one with
\* 'A'..'Z' replaced by 'a'..'z', all other units as they are, by the method
\* of AsciiStr and by the method of its AsciiExt implementation alike.
C19_OwnedCaseMapping ==
    /\ call \in {"AsciiStr_to_ascii_uppercase", "AsciiExt_to_ascii_uppercase"} =>
        /\ res.ty = "AsciiString"
        /\ res.v = [i \in 1..Len(arg.v) |-> Uppercased(arg.v[i])]
    /\ call \in {"AsciiStr_to_ascii_lowercase", "AsciiExt_to_ascii_lowercase"} =>
        /\ res.ty = "AsciiString"
        /\ res.v = [i \in 1..Len(arg.v) |-> Lowercased(arg.v[i])]

\* the interval a range predicate stands for
IntervalOf(name) ==
    CASE name \in {"is_graph", "Ascii_is_graph"} -> 33..126
      [] name \in {"is_print", "Ascii_is_print"} -> 32..126
      [] name \in {"is_lowercase", "Ascii_is_lowercase"} -> 97..122
      [] name \in {"is_uppercase", "Ascii_is_uppercase"} -> 65..90

RangeCalls ==
    {"is_graph", "is_print", "is_lowercase", "is_uppercase",
     "Ascii_is_graph", "Ascii_is_print", "Ascii_is_lowercase", "Ascii_is_uppercase"}

\* C20 as stated: every range predicate of a value in 0..=127 returns, and
\* never fails on an underflow, whether the value is in the predicate's
\* closed interval.
C20_RangePredicates ==
    call \in RangeCalls =>
        /\ res.ty = "bool"
        /\ res.v <=> arg.v \in IntervalOf(call)

\* a view of h: its bounds are in order and inside h
InRange(h, r) == 0 <= r.lo /\ r.lo <= r.hi /\ r.hi <= Len(h)

\* C29: for every view, the empty view and the views of whitespace alone
\* included, trimming what trim gave changes nothing, and trimming the start
\* of what trim_end gave and the end of what trim_start gave both give what
\* trim gives; every view these calls give lies inside the view it was
\* taken from.
C29_TrimAlgebra ==
    /\ call \in {"trim", "trim_start", "trim_end"} =>
          /\ res.ty = "AsciiStr"
          /\ InRange(arg.v, res.v)
          /\ InRange(arg.v, trim(arg.v, res.v))
          /\ InRange(arg.v, trim_start(arg.v, res.v))
          /\ InRange(arg.v, trim_end(arg.v, res.v))
    /\ call = "trim" =>
          Units(arg.v, trim(arg.v, res.v)) = Units(arg.v, res.v)
    /\ call = "trim_end" =>
          Units(arg.v, trim_start(arg.v, res.v)) = Units(arg.v, trim(arg.v, Whole(arg.v)))
    /\ call = "trim_start" =>
          /\ Units(arg.v, trim_end(arg.v, res.v)) = Units(arg.v, trim(arg.v, Whole(arg.v)))
          /\ Units(arg.v, trim_end(arg.v, res.v))
                = Units(arg.v, trim_start(arg.v, trim_end(arg.v, Whole(arg.v))))

\* trim of " X\n\n" is "X", and so is trim of that
C29_Witness ==
    /\ call = "trim"
    /\ arg.v = <<32, 88, 10, 10>>
    /\ Units(arg.v, res.v) = <<88>>
    /\ Units(arg.v, trim(arg.v, res.v)) = <<88>>

\* trim_end of the whitespace " \n" is empty
C29_WitnessWhitespace ==
    /\ call = "trim_end"
    /\ arg.v = <<32, 10>>
    /\ Units(arg.v, res.v) = <<>>

\* the positions of a view of length n an index names
Selected(idx, n) ==
    {p \in 0..(n - 1) :
        CASE idx.kind = "Range"            -> idx.start <= p /\ p < idx.end
          [] idx.kind = "RangeTo"          -> p < idx.end
          [] idx.kind = "RangeFrom"        -> idx.start <= p
          [] idx.kind = "RangeFull"        -> TRUE
          [] idx.kind = "RangeInclusive"   -> idx.start <= p /\ p <= idx.end
          [] idx.kind = "RangeToInclusive" -> p <= idx.end}

\* a bound of the index lies outside the view of length n: a start or an
\* excluded end past n, an included end at or past n
OutOfRange(idx, n) ==
    \/ idx.kind \in {"Range", "RangeFrom", "RangeInclusive"} /\ idx.start > n
    \/ idx.kind \in {"Range", "RangeTo"} /\ idx.end > n
    \/ idx.kind \in {"RangeInclusive", "RangeToInclusive"} /\ idx.end >= n

\* the index names a run of positions: its start is not past its end
Ascending(idx) ==
    /\ idx.kind = "Range" => idx.start <= idx.end
    /\ idx.kind = "RangeInclusive" => idx.start <= idx.end + 1

\* C21: indexing a view of length n with a position i < n gives the unit at
\* i, and with a range inside 0..n whose start is not past its end a view of
\* the same units of the original at exactly the positions the range names,
\* each still at most 127; a position or a bound outside the view panics.
C21_Indexing ==
    /\ call = "index" =>
          IF OutOfRange(arg.v[2], Len(arg.v[1])) THEN res = Panic
          ELSE Ascending(arg.v[2]) =>
                  /\ res.ty = "AsciiStr"
                  /\ {p \in 0..(Len(arg.v[1]) - 1) : res.v.lo <= p /\ p < res.v.hi}
                         = Selected(arg.v[2], Len(arg.v[1]))
                  /\ \A i \in 1..Len(Units(arg.v[1], res.v)) :
                         /\ Units(arg.v[1], res.v)[i] = arg.v[1][res.v.lo + i]
                         /\ Units(arg.v[1], res.v)[i] <= 127
    /\ call = "index_usize" =>
          IF arg.v[2] >= Len(arg.v[1]) THEN res = Panic
          ELSE res = Val("AsciiChar", arg.v[1][arg.v[2] + 1])

\* a[..=3] of [A, B, C, D] is the whole view
C21_Witness ==
    /\ call = "index"
    /\ arg.v[1] = <<65, 66, 67, 68>>
    /\ arg.v[2].kind = "RangeToInclusive" /\ arg.v[2].end = 3
    /\ res.ty = "AsciiStr"
    /\ Units(arg.v[1], res.v) = <<65, 66, 67, 68>>

\* the bytes of a value that is compared
BytesOf(x) ==
    IF x.ty \in {"str", "&str", "String"} THEN str_as_bytes(x.v)
    ELSE [i \in 1..Len(x.v) |-> x.v[i]]

\* C22: an AsciiStr or AsciiString is equal to a str, String, [u8],
\* [AsciiChar], AsciiStr or AsciiString exactly when the two have the same
\* number of bytes and the same byte at every position, and a == b gives what
\* b == a gives.
C22_Equality ==
    call = "eq" =>
        /\ res.v <=> /\ Len(BytesOf(arg.v[1])) = Len(BytesOf(arg.v[2]))
                     /\ \A i \in 1..Len(BytesOf(arg.v[1])) :
                            BytesOf(arg.v[1])[i] = BytesOf(arg.v[2])[i]
        /\ res.v <=> eq(arg.v[2], arg.v[1])

\* the AsciiString "A" DEL is equal to the String "A" DEL
C22_Witness ==
    /\ call = "eq"
    /\ arg.v[1] = Val("AsciiString", <<65, 127>>)
    /\ arg.v[2] = Val("String", <<65, 127>>)
    /\ res.v

\* the AsciiStr "A" is not equal to the bytes "A" 0x80
C22_WitnessUnequal ==
    /\ call = "eq"
    /\ arg.v[1] = Val("AsciiStr", <<65>>)
    /\ arg.v[2] = Val("[u8]", <<65, 128>>)
    /\ ~res.v

---------------------------------------------------------------------------
(* Properties of AsciiCStr and AsciiCString, checked under SpecFfi.        *)

\* i is the 0-based index of the first nul byte of bytes that is not the
\* byte at last
FirstNul(bytes, i, last) ==
    /\ i + 1 \in 1..Len(bytes) /\ bytes[i + 1] = 0 /\ i + 1 # last
    /\ \A j \in 1..i : ~(bytes[j] = 0 /\ j # last)

\* i is the 0-based index of the first byte of bytes above 127
FirstNonAscii(bytes, i) ==
    /\ i + 1 \in 1..Len(bytes) /\ bytes[i + 1] > 127
    /\ \A j \in 1..i : bytes[j] <= 127

C23_WitnessOk ==
    /\ call = "from_bytes_with_nul"
    /\ arg.v = <<65, 0>>
    /\ res.ok

\* C24: AsciiCString::new fails, with the value it was given in the error,
\* exactly when the bytes hold a nul byte or a byte above 127; otherwise the
\* stored buffer is the bytes and one nul byte after them: its last byte is
\* nul, no earlier byte is, every byte is at most 127,
\* as_bytes_with_nul() has one byte more than the input, and as_bytes() and
\* into_bytes() give the bytes of the input.
C24_AsciiCStringNew ==
    call = "AsciiCString_new" =>
        /\ ~res.ok <=> \E i \in 1..Len(as_ref_bytes(arg)) :
                           as_ref_bytes(arg)[i] = 0 \/ as_ref_bytes(arg)[i] > 127
        /\ ~res.ok => res.ty = "AsciiNulError" /\ res.v.owner = arg
        /\ res.ok =>
            /\ res.ty = "AsciiCString"
            /\ Len(res.v) = Len(as_ref_bytes(arg)) + 1
            /\ res.v[Len(res.v)] = 0
            /\ \A i \in 1..(Len(res.v) - 1) :
                   res.v[i] # 0 /\ res.v[i] = as_ref_bytes(arg)[i]
            /\ \A i \in 1..Len(res.v) : res.v[i] <= 127
            /\ back # None /\ back[1][1] = "as_bytes_with_nul" =>
                   /\ Len(back[1][2]) = Len(as_ref_bytes(arg)) + 1
                   /\ back[1][2] = res.v
            /\ back # None /\ back[1][1] \in {"as_bytes", "into_bytes"} =>
                   back[1][2] = as_ref_bytes(arg)

\* as_bytes() of AsciiCString::new("A" DEL) is "A" DEL
C24_Witness ==
    /\ call = "AsciiCString_new"
    /\ arg = Val("Vec<u8>", <<65, 127>>)
    /\ res.ok /\ res.v = <<65, 127, 0>>
    /\ back = Some(<<"as_bytes", <<65, 127>> >>)

\* AsciiCString::new of "A" nul hands the vector back
C24_WitnessErr ==
    /\ call = "AsciiCString_new"
    /\ arg = Val("Vec<u8>", <<65, 0>>)
    /\ ~res.ok /\ res.v.owner = arg

\* the letters A-Z and a-z
Letters == (65..90) \cup (97..122)

\* C28: for every value 0..127, is_alphabetic computed as
\* 'a' <= (b | 0x20) <= 'z' is true exactly for the letters A-Z and a-z; it
\* gives what the two-interval Ascii::is_alphabetic gives, and both are
\* false for '@', '[', '`' and '{'.
C28_IsAlphabetic ==
    call \in {"is_alphabetic", "Ascii_is_alphabetic"} =>
        /\ res.ty = "bool"
        /\ res.v <=> arg.v \in Letters
        /\ res.v <=> is_alphabetic(arg.v)
        /\ res.v <=> Ascii_is_alphabetic(arg.v)
        /\ arg.v \in {64, 91, 96, 123} => ~res.v

\* 'Z' is a letter by the bit trick
C28_Witness ==
    /\ call = "is_alphabetic"
    /\ arg.v = 90
    /\ res.v

\* '[' is no letter by the bit trick
C28_WitnessNeighbour ==
    /\ call = "is_alphabetic"
    /\ arg.v = 91
    /\ ~res.v

====
